---- MODULE Spec2Model ----
(***************************************************************************)
(* Model of the music retagging pipeline:                                  *)
(*   - process_drive_folder_for_retagging (drive_retagger.py), the driver  *)
(*     loop over a Drive listing, one action per external call;            *)
(*   - _build_updates_with_conflict_logging (drive_retagger.py), the       *)
(*     per-field merge of existing tags and fetched metadata;              *)
(*   - MusicTagIO.write (retagger_music_tag.py);                           *)
(*   - MusicBrainzRecordingProvider.fetch and AcoustIdIdentifier.identify  *)
(*     (retagger_api.py / retagger.py), the retry loops.                   *)
(* Text values are sequences of one-character strings; None is the         *)
(* one-element sequence <<"None">>, which no text value equals because     *)
(* "None" is not a character of the alphabet.                              *)
(***************************************************************************)
EXTENDS Integers, Sequences, FiniteSets, TLC

VARIABLES
    \* ---- process_drive_folder_for_retagging ----
    music_files,          \* the listing taken at the start of the run
    min_confidence,       \* keyword argument
    max_uploads_per_run,  \* keyword argument
    idx,                  \* position of the for loop in music_files
    pc,                   \* position inside the loop body
    summary,              \* the run-level counters
    tagged_before,        \* summary["tagged"] when the current iteration began
    temp_path,            \* local path of the current file, <<file_id, name>>
    new_name,             \* destination name on the identified path
    candidates,           \* result of ia.identify.candidates, until the branch reads it
    chosen,               \* confidence of the best candidate (NoChosen without one)
    updates,              \* title and artist of the updates built for the current file
    path,                 \* branch taken for the current file
    calls,                \* external calls made for the current file, in order
    outcome,              \* per listed file: how its iteration ended
    tmpfs,                \* local temp files that exist
    uploads,              \* successful upload_file calls of the run
    deleted,              \* file ids removed from Drive by delete_file
    result,               \* the returned summary (NoResult until return)
    \* ---- _build_updates_with_conflict_logging, MusicTagIO.write ----
    existing,             \* TagSnapshot.tags read from the file: tag key -> text or None
    new_meta,             \* TrackMetadata fetched for the file: field -> text or None
    mphase,               \* "read", "built", "written"
    built,                \* [updates, had_conflict, via] returned by the builder
    file,                 \* the file after MusicTagIO.write: [tags, id3]
    \* ---- MusicBrainzRecordingProvider.fetch, AcoustIdIdentifier.identify ----
    r_proc,               \* which retry loop runs
    r_retries,            \* self.retries
    r_sleep_s,            \* self.retry_sleep_s, in half seconds
    r_attempt,            \* the loop variable attempt
    r_log,                \* lookups and sleeps so far, in order
    r_result,             \* "running", or what the call returned or raised
    \* ---- renamer.py: sanitize_filename, new_sanitize_filename, generate_filename ----
    n_kind,               \* what n_in is: "text", or "metadata" (with a config)
    n_in,                 \* the argument(s) of the call
    n_op,                 \* the function called ("none" before the call)
    n_out,                \* what it returned
    \* ---- renamer.py: process_drive_folder, rename_files_in_directory ----
    rn_proc,              \* "drive" (process_drive_folder) or "scan" (rename_files_in_directory)
    rn_files,             \* the Drive listing, or the files os.walk lists, in order
    rn_special,           \* listed names that are no regular files (os.path.isfile is False)
    rn_config,            \* the config of the scan
    rn_idx,               \* position of the for loop
    rn_pc,                \* position inside the loop body
    rn_summary,           \* the counters
    rn_fs,                \* names that exist in the directory (temp dir, or scanned dir)
    rn_cur,               \* locals of the current rename: [src, proposed, dest]
    rn_outcome,           \* per listed file: how its iteration ended
    rn_result,            \* the returned summary (NoResult until return)
    \* ---- AcoustIdIdentifier.identify (both files), TaggingDriver.run ----
    id_in,                \* [proc, rows, min_confidence, max_candidates]
    id_pc,                \* "call", "returned" (identify), "ran" / "raised" (run)
    id_out,               \* the candidate list identify returned
    id_run                \* TaggingResult of run: [chosen, wrote_tags]

mergeVars == <<existing, new_meta, mphase, built, file>>

retryVars == <<r_proc, r_retries, r_sleep_s, r_attempt, r_log, r_result>>

loopVars == <<music_files, min_confidence, max_uploads_per_run, idx, pc, summary,
              tagged_before,
              temp_path, new_name, candidates, chosen, updates, path, calls,
              outcome, tmpfs, uploads, deleted, result>>

nameVars == <<n_kind, n_in, n_op, n_out>>

renVars == <<rn_proc, rn_files, rn_special, rn_config, rn_idx, rn_pc, rn_summary, rn_fs,
             rn_cur, rn_outcome, rn_result>>

identVars == <<id_in, id_pc, id_out, id_run>>

vars == <<loopVars, mergeVars, retryVars, nameVars, renVars, identVars>>

\* ------------------------------------------------------------------ bounds
MaxFiles == 2
MaxConf == 2
MaxCands == 2
MaxUploadsLimit == 1

\* ------------------------------------------------------------------ values
NoPath == <<>>
NoName == [base |-> <<>>, ext |-> ""]
None == <<"None">>
NoUpdates == [title |-> None, artist |-> None]
NoResult == [scanned |-> -1]
NoId == 0
NoChosen == -1

Confidences == 0..MaxConf

\* Candidate lists the identification facade may return: any confidences, any order.
CandidateLists == UNION {[1..n -> Confidences] : n \in 0..MaxCands}

\* The name of the file listed at position i.
\* A name is its os.path.splitext pair: base (a sequence of characters) and extension.
FileName(i) == IF i % 2 = 1 THEN [base |-> <<"a">>, ext |-> ".mp3"]
               ELSE [base |-> <<"T", "_", "A">>, ext |-> ".flac"]

\* Listings: position i holds a file whose id is i, or a file without id.
Listings ==
    UNION {[1..n -> {[id |-> NoId], [id |-> 1]}] : n \in 1..MaxFiles}

Listing(l) == [i \in DOMAIN l |->
                 [id |-> IF l[i].id = NoId THEN NoId ELSE i, name |-> FileName(i)]]

ZeroSummary == [scanned |-> 0, downloaded |-> 0, identified |-> 0, tagged |-> 0,
                uploaded |-> 0, failed |-> 0, deleted |-> 0]

Bump(s, k) == [s EXCEPT ![k] = @ + 1]

RECURSIVE MaxOf(_)
MaxOf(s) == IF Len(s) = 1 THEN s[1]
            ELSE LET m == MaxOf(Tail(s)) IN IF s[1] >= m THEN s[1] ELSE m

\* chosen = max(candidates, key=lambda c: c.confidence)
ChosenConfidence(cs) == MaxOf(cs)

CurFile == music_files[idx]

Call(op, ok) == [op |-> op, ok |-> ok]

\* What no step of the driver loop changes: its arguments, and the components
\* modelled on their own below.
argVars == <<music_files, min_confidence, max_uploads_per_run, mergeVars, retryVars,
             nameVars, renVars, identVars>>

\* What no step inside an iteration changes.
cfgVars == <<argVars, tagged_before>>

MergeIdle ==
    /\ existing = <<>>
    /\ new_meta = <<>>
    /\ mphase = "idle"
    /\ built = <<>>
    /\ file = <<>>

NamesIdle ==
    /\ n_kind = "idle"
    /\ n_in = <<>>
    /\ n_op = "none"
    /\ n_out = <<>>

RenIdle ==
    /\ rn_proc = "idle"
    /\ rn_files = <<>>
    /\ rn_special = {}
    /\ rn_config = <<>>
    /\ rn_idx = 0
    /\ rn_pc = "idle"
    /\ rn_summary = <<>>
    /\ rn_fs = {}
    /\ rn_cur = <<>>
    /\ rn_outcome = <<>>
    /\ rn_result = NoResult

IdentIdle ==
    /\ id_in = <<>>
    /\ id_pc = "idle"
    /\ id_out = <<>>
    /\ id_run = <<>>

RetryIdle ==
    /\ r_proc = "idle"
    /\ r_retries = 0
    /\ r_sleep_s = 0
    /\ r_attempt = 0
    /\ r_log = <<>>
    /\ r_result = "idle"

\* ------------------------------------------------------------------ Init
LoopInit ==
    /\ MergeIdle
    /\ RetryIdle
    /\ NamesIdle
    /\ RenIdle
    /\ IdentIdle
    /\ music_files \in {Listing(l) : l \in Listings}
    /\ min_confidence \in Confidences
    /\ max_uploads_per_run \in (-1)..MaxUploadsLimit
    /\ idx = 1
    /\ pc = "loop_head"
    /\ summary = ZeroSummary
    /\ tagged_before = 0
    /\ temp_path = NoPath
    /\ new_name = NoName
    /\ candidates = <<>>
    /\ chosen = NoChosen
    /\ updates = NoUpdates
    /\ path = "none"
    /\ calls = <<>>
    /\ outcome = [i \in DOMAIN music_files |-> "pending"]
    /\ tmpfs = {}
    /\ uploads = {}
    /\ deleted = {}
    /\ result = NoResult

\* ------------------------------------------------------------------ loop control
\* for file in music_files: exhausted -> log summary, return it.
LoopExit ==
    /\ pc = "loop_head"
    /\ idx > Len(music_files)
    /\ pc' = "done"
    /\ result' = summary
    /\ UNCHANGED <<cfgVars, idx, summary,
                   temp_path, new_name, candidates, chosen, updates, path, calls, outcome,
                   tmpfs, uploads, deleted>>

\* Mutant of UploadLimitReached: the loop stops only once the limit is exceeded.
UploadLimitReached_late ==
    /\ max_uploads_per_run # 0
    /\ max_uploads_per_run > 0
    /\ summary.uploaded > max_uploads_per_run

UploadLimitReached ==
    /\ max_uploads_per_run # 0
    /\ max_uploads_per_run > 0
    /\ summary.uploaded >= max_uploads_per_run

\* if max_uploads_per_run and ... : break
LoopBreak ==
    /\ pc = "loop_head"
    /\ idx <= Len(music_files)
    /\ UploadLimitReached
    /\ pc' = "done"
    /\ result' = summary
    /\ UNCHANGED <<cfgVars, idx, summary,
                   temp_path, new_name, candidates, chosen, updates, path, calls, outcome,
                   tmpfs, uploads, deleted>>

\* summary["scanned"] += 1; if not file_id: continue
SkipMissingId ==
    /\ pc = "loop_head"
    /\ idx <= Len(music_files)
    /\ ~UploadLimitReached
    /\ CurFile.id = NoId
    /\ summary' = Bump(summary, "scanned")
    /\ outcome' = [outcome EXCEPT ![idx] = "skipped"]
    /\ idx' = idx + 1
    /\ UNCHANGED <<cfgVars, pc,
                   temp_path, new_name, candidates, chosen, updates, path, calls, tmpfs,
                   uploads, deleted, result>>

\* summary["scanned"] += 1; temp_path = join(tmpdir, f"{file_id}_{name}")
BeginFile ==
    /\ pc = "loop_head"
    /\ idx <= Len(music_files)
    /\ ~UploadLimitReached
    /\ CurFile.id # NoId
    /\ summary' = Bump(summary, "scanned")
    /\ tagged_before' = summary.tagged
    /\ temp_path' = <<CurFile.id, CurFile.name>>
    /\ pc' = "download"
    /\ UNCHANGED <<argVars, idx,
                   new_name, candidates, chosen, updates, path, calls,
                   outcome, tmpfs, uploads, deleted, result>>

\* ------------------------------------------------------------------ try body

FileId == temp_path[1]
OrigName == temp_path[2]

\* Mutant of HandleException: the exception leaves the loop instead of being counted.
HandleException_propagates ==
    /\ summary' = summary
    /\ outcome' = [outcome EXCEPT ![idx] = "failed"]
    /\ pc' = "aborted"

\* except Exception as e: summary["failed"] += 1; log.error(...)   (then finally)
HandleException ==
    /\ summary' = Bump(summary, "failed")
    /\ outcome' = [outcome EXCEPT ![idx] = "failed"]
    /\ pc' = "finally"

\* The external call made at each position of the try body.
OpAt(p) ==
    CASE p = "download" -> "download"
      [] p \in {"print_pre", "print_new"} -> "dump"
      [] p = "read" -> "read"
      [] p = "identify" -> "identify"
      [] p = "fetch" -> "fetch"
      [] p \in {"pt_write", "write"} -> "write"
      [] p \in {"pt_upload", "upload"} -> "upload"
      [] p \in {"pt_delete", "delete"} -> "delete"

RaisingSteps == {"download", "print_pre", "read", "identify", "fetch", "pt_write",
                 "write", "print_new", "pt_upload", "upload", "pt_delete", "delete"}

\* Any external call of the try body raises. A failed download may or may not
\* leave a partial file at temp_path.
CallRaises ==
    /\ pc \in RaisingSteps
    /\ calls' = Append(calls, Call(OpAt(pc), FALSE))
    /\ HandleException
    /\ \E partial \in BOOLEAN :
          /\ partial => pc = "download"
          /\ tmpfs' = IF partial THEN tmpfs \cup {temp_path} ELSE tmpfs
    /\ UNCHANGED <<cfgVars, idx, temp_path, new_name, candidates, chosen, updates, path,
                   uploads, deleted, result>>

\* g.drive.download_file(file_id, temp_path); summary["downloaded"] += 1
DownloadOk ==
    /\ pc = "download"
    /\ calls' = Append(calls, Call("download", TRUE))
    /\ tmpfs' = tmpfs \cup {temp_path}
    /\ summary' = Bump(summary, "downloaded")
    /\ pc' = "print_pre"
    /\ UNCHANGED <<cfgVars, idx, temp_path, new_name, candidates, chosen, updates, path,
                   outcome, uploads, deleted, result>>

\* _print_all_tags(ia, temp_path)
PrintPreOk ==
    /\ pc = "print_pre"
    /\ calls' = Append(calls, Call("dump", TRUE))
    /\ pc' = "read"
    /\ UNCHANGED <<cfgVars, idx, summary, temp_path, new_name, candidates, chosen, updates,
                   path, outcome, tmpfs, uploads, deleted, result>>

\* snapshot = ia.tags.read(temp_path)
ReadOk ==
    /\ pc = "read"
    /\ calls' = Append(calls, Call("read", TRUE))
    /\ pc' = "identify"
    /\ UNCHANGED <<cfgVars, idx, summary, temp_path, new_name, candidates, chosen, updates,
                   path, outcome, tmpfs, uploads, deleted, result>>

\* candidates = ia.identify.candidates(temp_path, snapshot)
IdentifyOk ==
    /\ pc = "identify"
    /\ \E cs \in CandidateLists : candidates' = cs
    /\ calls' = Append(calls, Call("identify", TRUE))
    /\ pc' = "branch"
    /\ UNCHANGED <<cfgVars, idx, summary, temp_path, new_name, chosen, updates,
                   path, outcome, tmpfs, uploads, deleted, result>>

\* Mutant of TakesIdentifiedPath: a best confidence equal to the threshold is refused.
TakesIdentifiedPath_strict(cs, minc) ==
    /\ cs # <<>>
    /\ ChosenConfidence(cs) > minc

\* The file takes the identified path: candidates, and the best one reaches the threshold.
TakesIdentifiedPath(cs, minc) ==
    /\ cs # <<>>
    /\ ~(ChosenConfidence(cs) < minc)

\* if not candidates: ...   /   if chosen.confidence < min_confidence: ...
\* (candidates is not read after this branch and is dropped from the state)
BranchPassthrough ==
    /\ pc = "branch"
    /\ ~TakesIdentifiedPath(candidates, min_confidence)
    /\ chosen' = IF candidates = <<>> THEN NoChosen ELSE ChosenConfidence(candidates)
    /\ candidates' = <<>>
    /\ path' = "passthrough"
    /\ pc' = "pt_write"
    /\ UNCHANGED <<cfgVars, idx, summary, temp_path, new_name, updates,
                   calls, outcome, tmpfs, uploads, deleted, result>>

\* summary["identified"] += 1
BranchIdentified ==
    /\ pc = "branch"
    /\ TakesIdentifiedPath(candidates, min_confidence)
    /\ chosen' = ChosenConfidence(candidates)
    /\ candidates' = <<>>
    /\ path' = "identified"
    /\ summary' = Bump(summary, "identified")
    /\ pc' = "fetch"
    /\ UNCHANGED <<cfgVars, idx, temp_path, new_name, updates,
                   calls, outcome, tmpfs, uploads, deleted, result>>

\* ------------------------------------------------------------------ passthrough path
\* Mutant of PtWriteOk: the original is deleted right after the tag write, before
\* any upload.
PtWriteOk_then_delete ==
    /\ pc = "pt_write"
    /\ calls' = Append(calls, Call("write", TRUE))
    /\ pc' = "pt_delete"
    /\ UNCHANGED <<cfgVars, idx, summary, temp_path, new_name, candidates, chosen, updates,
                   path, outcome, tmpfs, uploads, deleted, result>>

\* ia.tags.write(temp_path, passthrough_updates, ensure_virtualdj_compat=True)
PtWriteOk ==
    /\ pc = "pt_write"
    /\ calls' = Append(calls, Call("write", TRUE))
    /\ pc' = "pt_upload"
    /\ UNCHANGED <<cfgVars, idx, summary, temp_path, new_name, candidates, chosen, updates,
                   path, outcome, tmpfs, uploads, deleted, result>>

Upload(parent, dest_name) ==
    [file |-> FileId, parent |-> parent, dest_name |-> dest_name, from |-> temp_path]

\* Mutant of PtUploadOk: the passthrough branch forgets to count the upload.
PtUploadOk_uncounted ==
    /\ pc = "pt_upload"
    /\ calls' = Append(calls, Call("upload", TRUE))
    /\ uploads' = uploads \cup {Upload("source", OrigName)}
    /\ pc' = "pt_delete"
    /\ UNCHANGED <<cfgVars, idx, summary, temp_path, new_name, candidates, chosen, updates,
                   path, outcome, tmpfs, deleted, result>>

\* g.drive.upload_file(temp_path, parent_id=source_folder_id, dest_name=name)
PtUploadOk ==
    /\ pc = "pt_upload"
    /\ calls' = Append(calls, Call("upload", TRUE))
    /\ uploads' = uploads \cup {Upload("source", OrigName)}
    /\ summary' = Bump(summary, "uploaded")
    /\ pc' = "pt_delete"
    /\ UNCHANGED <<cfgVars, idx, temp_path, new_name, candidates, chosen, updates,
                   path, outcome, tmpfs, deleted, result>>

\* g.drive.delete_file(file_id); summary["deleted"] += 1; summary["tagged"] += 1; continue
PtDeleteOk ==
    /\ pc = "pt_delete"
    /\ calls' = Append(calls, Call("delete", TRUE))
    /\ deleted' = deleted \cup {FileId}
    /\ summary' = Bump(Bump(summary, "deleted"), "tagged")
    /\ outcome' = [outcome EXCEPT ![idx] = "deleted"]
    /\ pc' = "finally"
    /\ UNCHANGED <<cfgVars, idx, temp_path, new_name, candidates, chosen, updates,
                   path, tmpfs, uploads, result>>

\* ------------------------------------------------------------------ identified path
UnsafeChars == {"?", "/"}

\* helpers.safe_filename_component: None gives "", unsafe characters are dropped.
safe_filename_component(v) ==
    IF v = None THEN <<>> ELSE SelectSeq(v, LAMBDA c : c \notin UnsafeChars)

\* Title and artist of the updates the merge can return.
TitleUpdates == {None, <<"T">>, <<"?">>}
ArtistUpdates == {None, <<"A">>}

\* meta = ia.metadata.fetch(chosen); updates, had_conflict = _build_updates_...(snapshot, meta)
FetchOk ==
    /\ pc = "fetch"
    /\ calls' = Append(calls, Call("fetch", TRUE))
    /\ \E t \in TitleUpdates, a \in ArtistUpdates : updates' = [title |-> t, artist |-> a]
    /\ pc' = "write"
    /\ UNCHANGED <<cfgVars, idx, summary, temp_path, new_name, candidates, chosen,
                   path, outcome, tmpfs, uploads, deleted, result>>

\* ia.tags.write(temp_path, updates, ensure_virtualdj_compat=True)
WriteOk ==
    /\ pc = "write"
    /\ calls' = Append(calls, Call("write", TRUE))
    /\ pc' = "print_new"
    /\ UNCHANGED <<cfgVars, idx, summary, temp_path, new_name, candidates, chosen, updates,
                   path, outcome, tmpfs, uploads, deleted, result>>

\* Mutant of DestName: one non-empty part is enough to build a new name.
DestName_either(name, upd) ==
    LET title_part == safe_filename_component(upd.title)
        artist_part == safe_filename_component(upd.artist)
    IN IF title_part # <<>> \/ artist_part # <<>>
       THEN [base |-> title_part \o <<"_">> \o artist_part, ext |-> name.ext]
       ELSE name

\* base, ext = splitext(name); new_name = f"{title_part}_{artist_part}{ext}" or name
DestName(name, upd) ==
    LET title_part == safe_filename_component(upd.title)
        artist_part == safe_filename_component(upd.artist)
    IN IF title_part # <<>> /\ artist_part # <<>>
       THEN [base |-> title_part \o <<"_">> \o artist_part, ext |-> name.ext]
       ELSE name

\* _print_all_tags(ia, temp_path); summary["tagged"] += 1; new_name, new_temp_path
PrintNewOk ==
    /\ pc = "print_new"
    /\ calls' = Append(calls, Call("dump", TRUE))
    /\ summary' = Bump(summary, "tagged")
    /\ new_name' = DestName(OrigName, updates)
    /\ pc' = IF <<FileId, new_name'>> # temp_path THEN "rename" ELSE "upload"
    /\ UNCHANGED <<cfgVars, idx, temp_path, candidates, chosen, updates,
                   path, outcome, tmpfs, uploads, deleted, result>>

\* Mutant of RenameOk: temp_path keeps naming the path the file was moved away from.
RenameOk_stale_path ==
    /\ pc = "rename"
    /\ calls' = Append(calls, Call("rename", TRUE))
    /\ tmpfs' = (tmpfs \ {temp_path}) \cup {<<FileId, new_name>>}
    /\ pc' = "upload"
    /\ UNCHANGED <<cfgVars, idx, summary, temp_path, new_name, candidates, chosen, updates,
                   path, outcome, uploads, deleted, result>>

\* os.rename(temp_path, new_temp_path); temp_path = new_temp_path
RenameOk ==
    /\ pc = "rename"
    /\ calls' = Append(calls, Call("rename", TRUE))
    /\ tmpfs' = (tmpfs \ {temp_path}) \cup {<<FileId, new_name>>}
    /\ temp_path' = <<FileId, new_name>>
    /\ pc' = "upload"
    /\ UNCHANGED <<cfgVars, idx, summary, new_name, candidates, chosen, updates,
                   path, outcome, uploads, deleted, result>>

\* Mutant of RenameFails: the rename error reaches the outer except clause.
RenameFails_fatal ==
    /\ pc = "rename"
    /\ calls' = Append(calls, Call("rename", FALSE))
    /\ HandleException
    /\ UNCHANGED <<cfgVars, idx, temp_path, new_name, candidates, chosen, updates,
                   path, tmpfs, uploads, deleted, result>>

\* except Exception as e: log.error("[RENAME-ERROR] ...")
RenameFails ==
    /\ pc = "rename"
    /\ calls' = Append(calls, Call("rename", FALSE))
    /\ pc' = "upload"
    /\ UNCHANGED <<cfgVars, idx, summary, temp_path, new_name, candidates, chosen, updates,
                   path, outcome, tmpfs, uploads, deleted, result>>

\* g.drive.upload_file(temp_path, parent_id=dest_folder_id, dest_name=new_name)
UploadOk ==
    /\ pc = "upload"
    /\ calls' = Append(calls, Call("upload", TRUE))
    /\ uploads' = uploads \cup {Upload("dest", new_name)}
    /\ summary' = Bump(summary, "uploaded")
    /\ pc' = "delete"
    /\ UNCHANGED <<cfgVars, idx, temp_path, new_name, candidates, chosen, updates,
                   path, outcome, tmpfs, deleted, result>>

\* Mutant of DeleteOk: something raises after the deletion was counted.
DeleteOk_then_raises ==
    /\ pc = "delete"
    /\ calls' = Append(calls, Call("delete", TRUE))
    /\ deleted' = deleted \cup {FileId}
    /\ summary' = Bump(Bump(summary, "deleted"), "failed")
    /\ outcome' = [outcome EXCEPT ![idx] = "failed"]
    /\ pc' = "finally"
    /\ UNCHANGED <<cfgVars, idx, temp_path, new_name, candidates, chosen, updates,
                   path, tmpfs, uploads, result>>

\* g.drive.delete_file(file_id); summary["deleted"] += 1
DeleteOk ==
    /\ pc = "delete"
    /\ calls' = Append(calls, Call("delete", TRUE))
    /\ deleted' = deleted \cup {FileId}
    /\ summary' = Bump(summary, "deleted")
    /\ outcome' = [outcome EXCEPT ![idx] = "deleted"]
    /\ pc' = "finally"
    /\ UNCHANGED <<cfgVars, idx, temp_path, new_name, candidates, chosen, updates,
                   path, tmpfs, uploads, result>>

\* ------------------------------------------------------------------ finally
\* Mutant of EndIteration: the loop takes the same listed file again.
EndIteration_same_file ==
    /\ idx' = idx
    /\ pc' = "loop_head"
    /\ temp_path' = NoPath
    /\ new_name' = NoName
    /\ chosen' = NoChosen
    /\ updates' = NoUpdates
    /\ path' = "none"
    /\ calls' = <<>>
    /\ tagged_before' = summary.tagged
    /\ UNCHANGED <<argVars, summary, candidates, outcome, uploads, deleted, result>>

\* The next iteration starts; the locals of this one are dead and are dropped.
EndIteration ==
    /\ idx' = idx + 1
    /\ pc' = "loop_head"
    /\ temp_path' = NoPath
    /\ new_name' = NoName
    /\ chosen' = NoChosen
    /\ updates' = NoUpdates
    /\ path' = "none"
    /\ calls' = <<>>
    /\ tagged_before' = summary.tagged
    /\ UNCHANGED <<argVars, summary, candidates, outcome, uploads, deleted, result>>

\* if os.path.exists(temp_path): os.remove(temp_path)
FinallyRemove ==
    /\ pc = "finally"
    /\ temp_path \in tmpfs
    /\ tmpfs' = tmpfs \ {temp_path}
    /\ EndIteration

\* os.remove raises: except Exception: pass
FinallyRemoveFails ==
    /\ pc = "finally"
    /\ temp_path \in tmpfs
    /\ tmpfs' = tmpfs
    /\ EndIteration

\* nothing at temp_path
FinallyNoFile ==
    /\ pc = "finally"
    /\ temp_path \notin tmpfs
    /\ tmpfs' = tmpfs
    /\ EndIteration

LoopNext ==
    \/ LoopExit \/ LoopBreak \/ SkipMissingId \/ BeginFile
    \/ CallRaises
    \/ DownloadOk \/ PrintPreOk \/ ReadOk \/ IdentifyOk
    \/ BranchPassthrough \/ BranchIdentified
    \/ PtWriteOk \/ PtUploadOk \/ PtDeleteOk
    \/ FetchOk \/ WriteOk \/ PrintNewOk \/ RenameOk \/ RenameFails
    \/ UploadOk \/ DeleteOk
    \/ FinallyRemove \/ FinallyRemoveFails \/ FinallyNoFile

Spec == LoopInit /\ [][LoopNext]_vars

\* The function is sequential code: as long as every external call returns or
\* raises, the next statement is executed.
SpecLive == Spec /\ WF_vars(LoopNext)

\* ================================================================== text helpers
IsSpace(c) == c = " "

IsDigit(c) == c \in {"0", "1", "2", "3", "8", "9"}

Lower(c) ==
    CASE c = "A" -> "a" [] c = "B" -> "b" [] c = "K" -> "k" [] c = "T" -> "t"
      [] c = "V" -> "v" [] OTHER -> c

Upper(c) ==
    CASE c = "a" -> "A" [] c = "b" -> "B" [] c = "k" -> "K" [] c = "t" -> "T"
      [] c = "v" -> "V" [] OTHER -> c

RECURSIVE lstrip(_)
lstrip(s) == IF s = <<>> THEN s ELSE IF IsSpace(s[1]) THEN lstrip(Tail(s)) ELSE s

RECURSIVE rstrip(_)
rstrip(s) == IF s = <<>> THEN s
             ELSE IF IsSpace(s[Len(s)]) THEN rstrip(SubSeq(s, 1, Len(s) - 1)) ELSE s

\* str.strip()
strip(s) == rstrip(lstrip(s))

\* str.startswith(prefix)
startswith(s, prefix) ==
    Len(s) >= Len(prefix) /\ SubSeq(s, 1, Len(prefix)) = prefix

\* Python truthiness of an Optional[str]
Truthy(v) == v # None /\ v # <<>>

\* a or b
PyOr(a, b) == IF Truthy(a) THEN a ELSE b

\* helpers.safe_str: None gives "", text is kept.
safe_str(v) == IF v = None THEN <<>> ELSE v

\* helpers.normalize_for_compare: None-safe, stripped, case-folded.
normalize_for_compare(v) ==
    LET s == strip(safe_str(v)) IN [i \in 1..Len(s) |-> Lower(s[i])]

\* helpers.title_case_words: every word starts upper-case and continues lower-case.
title_case_words(v) ==
    [i \in 1..Len(v) |->
        IF i = 1 \/ IsSpace(v[i - 1]) THEN Upper(v[i]) ELSE Lower(v[i])]

\* _normalize_year_for_tag: the leading four digits of the stripped value, else "".
normalize_year_for_tag(v) ==
    LET s == strip(safe_str(v))
    IN IF s = <<>> THEN <<>>
       ELSE IF Len(s) >= 4 /\ \A i \in 1..4 : IsDigit(s[i]) THEN SubSeq(s, 1, 4)
       ELSE <<>>

\* ================================================================== the tag merge
TagKeys == {"tracktitle", "artist", "album", "albumartist", "year", "date", "genre",
            "bpm", "comment", "isrc", "tracknumber", "discnumber"}

MetaFields == {"title", "artist", "album", "album_artist", "year", "genre", "bpm",
               "comment", "isrc", "track_number", "disc_number"}

KAT == <<"<", "K", "A", "T", "_", "v", "1", ">">>

\* def _blank(v): return helpers.safe_str(v).strip() == ""
blank(v) == strip(safe_str(v)) = <<>>

\* def _norm(v): return helpers.normalize_for_compare(helpers.safe_str(v).strip())
norm(v) == normalize_for_compare(strip(safe_str(v)))

\* def _norm_year(v)
norm_year(v) == normalize_for_compare(strip(safe_str(normalize_year_for_tag(v))))

\* def _norm_bpm(v): return _norm(v)
norm_bpm(v) == norm(v)

\* normalize_fn(v), for the normalize_fn passed to _pick
normalize(normalize_fn, v) ==
    CASE normalize_fn = "_norm" -> norm(v)
      [] normalize_fn = "_norm_year" -> norm_year(v)
      [] normalize_fn = "_norm_bpm" -> norm_bpm(v)

\* def _pick(existing_val, new_val, *, normalize_fn) -> (value_to_write_or_None, conflict)
pick(existing_val, new_val, normalize_fn) ==
    IF blank(new_val) THEN [value |-> None, conflict |-> FALSE]
    ELSE IF blank(existing_val) THEN [value |-> new_val, conflict |-> FALSE]
    ELSE IF normalize(normalize_fn, existing_val) = normalize(normalize_fn, new_val)
         THEN [value |-> new_val, conflict |-> FALSE]
    ELSE [value |-> None, conflict |-> TRUE]

\* Mutant of genre_to_write: the new genre is written whenever there is one.
genre_to_write_always(t, meta) ==
    IF Truthy(normalize_for_compare(meta.genre)) THEN meta.genre ELSE None

\* genre_to_write = new_meta.genre if (not existing_genre and new_genre) else None
genre_to_write(t, meta) ==
    LET existing_genre == normalize_for_compare(t["genre"])
        new_genre == normalize_for_compare(meta.genre)
    IN IF ~Truthy(existing_genre) /\ Truthy(new_genre) THEN meta.genre ELSE None

\* Mutant of comment_to_write: the prefix is added without looking for one.
comment_to_write_stacks(t) ==
    LET existing_comment == strip(safe_str(t["comment"]))
    IN IF existing_comment = <<>> THEN KAT ELSE KAT \o <<" ">> \o existing_comment

\* existing_comment = safe_str(t.get("comment")).strip(); the <KAT_v1> prefix rules
comment_to_write(t) ==
    LET existing_comment == strip(safe_str(t["comment"]))
    IN IF existing_comment = <<>> THEN KAT
       ELSE IF startswith(existing_comment, KAT) THEN existing_comment
       ELSE KAT \o <<" ">> \o existing_comment

\* x if x else None
OrNone(v) == IF Truthy(v) THEN v ELSE None

\* Mutant of existing_year_raw: the 'date' tag is never consulted.
existing_year_raw_no_date(t) == t["year"]

\* existing_year_raw = t.get("year") or t.get("date")
existing_year_raw(t) == PyOr(t["year"], t["date"])

\* def _build_updates_with_conflict_logging(existing, new_meta) -> (updates, had_conflict)
build_updates_with_conflict_logging(t, meta) ==
    LET new_year_norm == normalize_year_for_tag(meta.year)
        existing_year_norm == normalize_year_for_tag(existing_year_raw(t))
        title == pick(t["tracktitle"], meta.title, "_norm")
        artist == pick(t["artist"], meta.artist, "_norm")
        album == pick(t["album"], meta.album, "_norm")
        album_artist == pick(t["albumartist"], meta.album_artist, "_norm")
        year == pick(existing_year_norm, new_year_norm, "_norm_year")
        bpm == pick(t["bpm"], meta.bpm, "_norm_bpm")
        isrc == pick(t["isrc"], meta.isrc, "_norm")
        track_number == pick(t["tracknumber"], meta.track_number, "_norm")
        disc_number == pick(t["discnumber"], meta.disc_number, "_norm")
        genre == genre_to_write(t, meta)
    IN [updates |->
          [title |-> IF Truthy(title.value) THEN title_case_words(title.value) ELSE None,
           artist |-> IF Truthy(artist.value) THEN title_case_words(artist.value) ELSE None,
           album |-> OrNone(album.value),
           album_artist |-> OrNone(album_artist.value),
           year |-> OrNone(year.value),
           genre |-> IF genre # None THEN title_case_words(genre) ELSE None,
           bpm |-> OrNone(bpm.value),
           comment |-> comment_to_write(t),
           isrc |-> OrNone(isrc.value),
           track_number |-> OrNone(track_number.value),
           disc_number |-> OrNone(disc_number.value)],
        had_conflict |->
           \/ title.conflict \/ artist.conflict \/ album.conflict
           \/ album_artist.conflict \/ year.conflict \/ bpm.conflict
           \/ isrc.conflict \/ track_number.conflict \/ disc_number.conflict]

\* Mutant of build_passthrough_updates_from_snapshot: the title is neither stripped
\* nor turned into None when it is blank.
build_passthrough_updates_from_snapshot_raw_title(t) ==
    [title |-> safe_str(t["tracktitle"]),
     artist |-> OrNone(strip(safe_str(t["artist"]))),
     album |-> OrNone(strip(safe_str(t["album"]))),
     album_artist |-> OrNone(strip(safe_str(t["albumartist"]))),
     year |-> OrNone(normalize_year_for_tag(existing_year_raw(t))),
     genre |-> OrNone(strip(safe_str(t["genre"]))),
     bpm |-> OrNone(strip(safe_str(t["bpm"]))),
     comment |-> OrNone(strip(safe_str(t["comment"]))),
     isrc |-> None,
     track_number |-> OrNone(strip(safe_str(t["tracknumber"]))),
     disc_number |-> OrNone(strip(safe_str(t["discnumber"])))]

\* def _build_passthrough_updates_from_snapshot(snapshot) -> TrackMetadata
build_passthrough_updates_from_snapshot(t) ==
    [title |-> OrNone(strip(safe_str(t["tracktitle"]))),
     artist |-> OrNone(strip(safe_str(t["artist"]))),
     album |-> OrNone(strip(safe_str(t["album"]))),
     album_artist |-> OrNone(strip(safe_str(t["albumartist"]))),
     year |-> OrNone(normalize_year_for_tag(existing_year_raw(t))),
     genre |-> OrNone(strip(safe_str(t["genre"]))),
     bpm |-> OrNone(strip(safe_str(t["bpm"]))),
     comment |-> OrNone(strip(safe_str(t["comment"]))),
     isrc |-> None,
     track_number |-> OrNone(strip(safe_str(t["tracknumber"]))),
     disc_number |-> OrNone(strip(safe_str(t["discnumber"])))]

\* ================================================================== MusicTagIO.write
\* mapping = {"tracktitle": updates.title, ...}: the tag key of each update field.
FieldOf(key) ==
    CASE key = "tracktitle" -> "title"
      [] key = "albumartist" -> "album_artist"
      [] key = "tracknumber" -> "track_number"
      [] key = "discnumber" -> "disc_number"
      [] OTHER -> key

MappingKeys == TagKeys \ {"date"}

NoFrames == [TYER |-> None, TDRC |-> None]

\* Mutant of write_tags: a None field is not skipped, str(None) is assigned.
write_tags_no_skip(tags, upd, bad) ==
    [k \in TagKeys |->
        IF k \in MappingKeys /\ k # bad
        THEN IF upd[FieldOf(k)] = None THEN <<"N", "o", "n", "e">> ELSE upd[FieldOf(k)]
        ELSE tags[k]]

\* for key, val in mapping.items(): if val is None: continue; f[key] = str(val)
\* (bad: the key whose assignment raised and was only logged, if any)
write_tags(tags, upd, bad) ==
    [k \in TagKeys |->
        IF k \in MappingKeys /\ upd[FieldOf(k)] # None /\ k # bad
        THEN upd[FieldOf(k)]
        ELSE tags[k]]

\* _save_virtualdj_id3_compat: TYER and TDRC are set when a year is given.
save_virtualdj_id3_compat(id3, year) ==
    LET normalized_year == normalize_year_for_tag(year)
    IN IF Truthy(normalized_year)
       THEN [TYER |-> normalized_year, TDRC |-> normalized_year]
       ELSE id3

\* ================================================================== merge inputs
MaxPopulated == 2

Y2019 == <<"2", "0", "1", "9">>
Y2018 == <<"2", "0", "1", "8">>

\* Values a tag of the file may hold.
ExistingVals(k) ==
    CASE k = "year" -> {Y2019 \o <<"-", "0", "3">>, <<"9", "9">>}
      [] k = "date" -> {Y2018}
      [] k = "comment" -> {KAT \o <<" ", "a">>, KAT \o <<" ", "a", " ">>, <<"a", " ">>,
                           <<" ">> \o KAT, <<" ">>}
      [] OTHER -> {<<"a">>, <<" ">>}

\* Values a field of the fetched metadata may hold.
NewVals(f) ==
    CASE f = "year" -> {Y2019, Y2018 \o <<"-", "0", "3">>, <<"9", "9">>}
      [] f = "comment" -> {<<"b">>}
      [] OTHER -> {<<"A", " ">>, <<"b">>, <<" ">>}

Choices ==
    {<<"tag", k, v>> : k \in TagKeys, v \in UNION {ExistingVals(x) : x \in TagKeys}}
    \cup {<<"meta", f, v>> : f \in MetaFields, v \in UNION {NewVals(x) : x \in MetaFields}}

ValidChoices ==
    {c \in Choices : IF c[1] = "tag" THEN c[3] \in ExistingVals(c[2])
                     ELSE c[3] \in NewVals(c[2])}

\* Sets of at most n choices, no two for the same tag or field.
RECURSIVE ChoiceSets(_)
ChoiceSets(n) ==
    IF n = 0 THEN {{}}
    ELSE LET smaller == ChoiceSets(n - 1)
         IN smaller \cup
            UNION {{s \cup {c} : c \in {x \in ValidChoices :
                                           \A y \in s : <<y[1], y[2]>> # <<x[1], x[2]>>}}
                   : s \in smaller}

Picked(s, kind, key) ==
    IF \E c \in s : c[1] = kind /\ c[2] = key
    THEN (CHOOSE c \in s : c[1] = kind /\ c[2] = key)[3]
    ELSE None

MergeInit ==
    /\ \E s \in ChoiceSets(MaxPopulated) :
          /\ existing = [k \in TagKeys |-> Picked(s, "tag", k)]
          /\ new_meta = [f \in MetaFields |-> Picked(s, "meta", f)]
    /\ mphase = "read"
    /\ built = <<>>
    /\ file = [tags |-> existing, id3 |-> NoFrames]
    /\ RetryIdle
    /\ NamesIdle
    /\ RenIdle
    /\ IdentIdle
    /\ music_files = <<>> /\ min_confidence = 0 /\ max_uploads_per_run = 0
    /\ idx = 0 /\ pc = "idle" /\ summary = ZeroSummary /\ tagged_before = 0
    /\ temp_path = NoPath
    /\ new_name = NoName /\ candidates = <<>> /\ chosen = NoChosen
    /\ updates = NoUpdates /\ path = "none" /\ calls = <<>> /\ outcome = <<>>
    /\ tmpfs = {} /\ uploads = {} /\ deleted = {} /\ result = NoResult

mergeFrame == <<loopVars, retryVars, nameVars, renVars, identVars, existing, new_meta>>

\* updates, had_conflict = _build_updates_with_conflict_logging(snapshot, meta)
Build ==
    /\ mphase = "read"
    /\ LET r == build_updates_with_conflict_logging(existing, new_meta)
       IN built' = [updates |-> r.updates, had_conflict |-> r.had_conflict,
                    via |-> "conflict_logging"]
    /\ mphase' = "built"
    /\ UNCHANGED <<mergeFrame, file>>

\* passthrough_updates = _build_passthrough_updates_from_snapshot(snapshot)
BuildPassthrough ==
    /\ mphase = "read"
    /\ built' = [updates |-> build_passthrough_updates_from_snapshot(existing),
                 had_conflict |-> FALSE, via |-> "passthrough"]
    /\ mphase' = "built"
    /\ UNCHANGED <<mergeFrame, file>>

\* MusicTagIO.write of retagger_music_tag.py: a failing assignment is logged and
\* skipped; f.save(); the VirtualDJ fix-up applies when asked for, on an mp3.
WriteMusicTag ==
    /\ mphase = "built"
    /\ \E bad \in {k \in MappingKeys : built.updates[FieldOf(k)] # None} \cup {"none"},
          compat \in BOOLEAN :
          file' = [tags |-> write_tags(file.tags, built.updates, bad),
                   id3 |-> IF compat
                           THEN save_virtualdj_id3_compat(file.id3, built.updates.year)
                           ELSE file.id3]
    /\ mphase' = "written"
    /\ UNCHANGED <<mergeFrame, built>>

\* MusicTagIO.write of retagger.py: every non-None field is assigned; f.save()
WriteRetagger ==
    /\ mphase = "built"
    /\ file' = [tags |-> write_tags(file.tags, built.updates, "none"), id3 |-> file.id3]
    /\ mphase' = "written"
    /\ UNCHANGED <<mergeFrame, built>>

\* load_file, an assignment (retagger.py) or f.save() raises: nothing is saved.
WriteRaises ==
    /\ mphase = "built"
    /\ file' = file
    /\ mphase' = "write_failed"
    /\ UNCHANGED <<mergeFrame, built>>

MergeNext == Build \/ BuildPassthrough \/ WriteMusicTag \/ WriteRetagger \/ WriteRaises

SpecMerge == MergeInit /\ [][MergeNext]_vars

\* ================================================================== retry loops
MaxRetries == 3
MaxRetrySleep == 2

Event(ev, ok, d) == [ev |-> ev, ok |-> ok, d |-> d]

IdentifyProcs == {"identify_api", "identify"}

RetryInit ==
    /\ r_proc \in {"fetch", "fetch_foreign"} \cup IdentifyProcs
    /\ r_retries \in 0..MaxRetries
    /\ r_sleep_s \in 1..MaxRetrySleep
    /\ r_attempt = 1
    /\ r_log = <<>>
    /\ r_result = "running"
    /\ MergeIdle
    /\ NamesIdle
    /\ RenIdle
    /\ IdentIdle
    /\ music_files = <<>> /\ min_confidence = 0 /\ max_uploads_per_run = 0
    /\ idx = 0 /\ pc = "idle" /\ summary = ZeroSummary /\ tagged_before = 0
    /\ temp_path = NoPath
    /\ new_name = NoName /\ candidates = <<>> /\ chosen = NoChosen
    /\ updates = NoUpdates /\ path = "none" /\ calls = <<>> /\ outcome = <<>>
    /\ tmpfs = {} /\ uploads = {} /\ deleted = {} /\ result = NoResult

retryFrame == <<loopVars, mergeVars, nameVars, renVars, identVars, r_proc, r_retries,
               r_sleep_s>>

\* Mutant of Backoff: the wait does not grow with the attempt.
Backoff_constant(sleep_s, attempt) == sleep_s

\* time.sleep(self.retry_sleep_s * attempt)
Backoff(sleep_s, attempt) == sleep_s * attempt

\* Mutant of GiveUp: identify raises after its last attempt, as fetch does.
GiveUp_raises(proc) == "raised_RuntimeError"

\* After the last failed attempt: fetch raises RuntimeError, identify returns [].
GiveUp(proc) == IF proc = "fetch" THEN "raised_RuntimeError" ELSE "returned_empty"

\* except Exception: if attempt < self.retries: sleep(...) else: give up
AttemptFailed(events) ==
    IF r_attempt < r_retries
    THEN /\ r_log' = r_log \o events
                       \o <<Event("sleep", TRUE, Backoff(r_sleep_s, r_attempt))>>
         /\ r_attempt' = r_attempt + 1
         /\ r_result' = r_result
    ELSE /\ r_log' = r_log \o events
         /\ r_attempt' = r_attempt
         /\ r_result' = GiveUp(r_proc)

Running == r_result = "running" /\ r_attempt <= r_retries

\* if track_id.provider != "musicbrainz": raise ValueError
FetchForeignProvider ==
    /\ r_proc = "fetch_foreign"
    /\ r_result = "running"
    /\ r_result' = "raised_ValueError"
    /\ UNCHANGED <<retryFrame, r_attempt, r_log>>

\* self._throttle(); rec = musicbrainzngs.get_recording_by_id(...); return TrackMetadata
FetchAttemptOk ==
    /\ r_proc = "fetch"
    /\ Running
    /\ r_log' = r_log \o <<Event("throttle", TRUE, 0), Event("lookup", TRUE, 0)>>
    /\ r_result' = "returned_meta"
    /\ UNCHANGED <<retryFrame, r_attempt>>

\* the lookup, or reading its answer, raises
FetchAttemptFails ==
    /\ r_proc = "fetch"
    /\ Running
    /\ AttemptFailed(<<Event("throttle", TRUE, 0), Event("lookup", FALSE, 0)>>)
    /\ UNCHANGED retryFrame

\* the for loop made no attempt: raise RuntimeError after the loop
FetchNoAttempt ==
    /\ r_proc = "fetch"
    /\ r_result = "running"
    /\ r_attempt > r_retries
    /\ r_result' = "raised_RuntimeError"
    /\ UNCHANGED <<retryFrame, r_attempt, r_log>>

\* results = acoustid.match(...); return the candidates
IdentifyMatchOk ==
    /\ r_proc \in IdentifyProcs
    /\ Running
    /\ r_log' = Append(r_log, Event("lookup", TRUE, 0))
    /\ r_result' \in {"returned_candidates", "returned_empty"}
    /\ UNCHANGED <<retryFrame, r_attempt>>

\* retagger_api.py: match raised, the fpcalc fingerprint lookup returned
IdentifyFallbackOk ==
    /\ r_proc = "identify_api"
    /\ Running
    /\ r_log' = r_log \o <<Event("lookup", FALSE, 0), Event("fallback", TRUE, 0)>>
    /\ r_result' \in {"returned_candidates", "returned_empty"}
    /\ UNCHANGED <<retryFrame, r_attempt>>

\* retagger_api.py: match raised and the fallback gave nothing (fpcalc unusable),
\* or its lookup raised
IdentifyApiAttemptFails ==
    /\ r_proc = "identify_api"
    /\ Running
    /\ \E fb \in {<<>>, <<Event("fallback", FALSE, 0)>>} :
          AttemptFailed(<<Event("lookup", FALSE, 0)>> \o fb)
    /\ UNCHANGED retryFrame

\* retagger.py: except acoustid.FingerprintGenerationError: return []
IdentifyDecodeError ==
    /\ r_proc = "identify"
    /\ Running
    /\ r_log' = Append(r_log, Event("lookup", FALSE, 0))
    /\ r_result' = "returned_empty"
    /\ UNCHANGED <<retryFrame, r_attempt>>

\* retagger.py: except Exception
IdentifyAttemptFails ==
    /\ r_proc = "identify"
    /\ Running
    /\ AttemptFailed(<<Event("lookup", FALSE, 0)>>)
    /\ UNCHANGED retryFrame

\* the for loop made no attempt: return []
IdentifyNoAttempt ==
    /\ r_proc \in IdentifyProcs
    /\ r_result = "running"
    /\ r_attempt > r_retries
    /\ r_result' = "returned_empty"
    /\ UNCHANGED <<retryFrame, r_attempt, r_log>>

RetryNext ==
    \/ FetchForeignProvider \/ FetchAttemptOk \/ FetchAttemptFails \/ FetchNoAttempt
    \/ IdentifyMatchOk \/ IdentifyFallbackOk \/ IdentifyApiAttemptFails
    \/ IdentifyDecodeError \/ IdentifyAttemptFails \/ IdentifyNoAttempt

SpecRetry == RetryInit /\ [][RetryNext]_vars

\* ================================================================== renamer.py: names
MaxLen == 3
MaxOrder == 2

AsciiLower == {"a", "b", "c", "d", "e", "f", "g", "h", "i", "j", "k", "l", "m",
               "n", "o", "p", "q", "r", "s", "t", "u", "v", "w", "x", "y", "z"}

AsciiUpper == {"A", "B", "C", "D", "E", "F", "G", "H", "I", "J", "K", "L", "M",
               "N", "O", "P", "Q", "R", "S", "T", "U", "V", "W", "X", "Y", "Z"}

AsciiDigit == {"0", "1", "2", "3", "4", "5", "6", "7", "8", "9"}

\* \s
Whitespace == {" ", "\t"}

\* [a-zA-Z0-9_]
WordChars == AsciiLower \cup AsciiUpper \cup AsciiDigit \cup {"_"}

\* [a-zA-Z0-9_\-]
NameChars == WordChars \cup {"-"}

\* def new_sanitize_filename(value): re.sub(r"[^a-zA-Z0-9_]", "_", value)
new_sanitize_filename(value) ==
    [i \in 1..Len(value) |-> IF value[i] \in WordChars THEN value[i] ELSE "_"]

\* re.sub(r"\s+", "_", value): the leftmost run of whitespace, then the rest
RECURSIVE sub_whitespace_runs(_)
sub_whitespace_runs(value) ==
    IF value = <<>> THEN <<>>
    ELSE IF value[1] \in Whitespace
         THEN IF Len(value) > 1 /\ value[2] \in Whitespace
              THEN sub_whitespace_runs(Tail(value))
              ELSE <<"_">> \o sub_whitespace_runs(Tail(value))
         ELSE <<value[1]>> \o sub_whitespace_runs(Tail(value))

\* Mutant of sanitize_filename: \s instead of \s+, one '_' for each whitespace character.
sanitize_filename_each_space(value) ==
    SelectSeq([i \in 1..Len(value) |-> IF value[i] \in Whitespace THEN "_" ELSE value[i]],
              LAMBDA c : c \in NameChars)

\* def sanitize_filename(value):
\*     value = re.sub(r"\s+", "_", value); return re.sub(r"[^a-zA-Z0-9_\-]", "", value)
sanitize_filename(value) ==
    SelectSeq(sub_whitespace_runs(value), LAMBDA c : c \in NameChars)

\* A key that a dict does not hold.
Absent == <<"absent">>

\* d.get(key, default)
dict_get(d, key, default) == IF d[key] = Absent THEN default ELSE d[key]

\* separator.join(parts)
RECURSIVE join(_, _)
join(separator, parts) ==
    IF parts = <<>> THEN <<>>
    ELSE IF Len(parts) = 1 THEN parts[1]
    ELSE parts[1] \o separator \o join(separator, Tail(parts))

DefaultExtension == <<".", "m", "p", "3">>
DefaultSeparator == <<"_", "_">>

InList(x, list) == \E i \in DOMAIN list : list[i] = x

\* Mutant of filename_parts: a value that sanitizes to "" is appended all the same.
RECURSIVE filename_parts_keeps_empty(_, _, _, _)
filename_parts_keeps_empty(metadata, rename_order, required_fields, parts) ==
    IF rename_order = <<>> THEN [returned |-> FALSE, parts |-> parts]
    ELSE LET field == Head(rename_order)
             value == dict_get(metadata, field, <<>>)
         IN IF value = <<>> /\ InList(field, required_fields)
            THEN [returned |-> TRUE, parts |-> <<>>]
            ELSE filename_parts_keeps_empty(metadata, Tail(rename_order), required_fields,
                                            Append(parts, sanitize_filename(value)))

\* for field in rename_order: ... return None / filename_parts.append(sanitized)
\* (returned: the loop left the function with None)
RECURSIVE filename_parts(_, _, _, _)
filename_parts(metadata, rename_order, required_fields, parts) ==
    IF rename_order = <<>> THEN [returned |-> FALSE, parts |-> parts]
    ELSE LET field == Head(rename_order)
             value == dict_get(metadata, field, <<>>)
         IN IF value = <<>> /\ InList(field, required_fields)
            THEN [returned |-> TRUE, parts |-> <<>>]
            ELSE LET sanitized == sanitize_filename(value)
                 IN filename_parts(metadata, Tail(rename_order), required_fields,
                                   IF sanitized # <<>> THEN Append(parts, sanitized)
                                   ELSE parts)

\* def generate_filename(metadata, config) -> Optional[str]
generate_filename(metadata, config) ==
    LET rename_order == dict_get(config, "rename_order", <<>>)
        required_fields == dict_get(config, "required_fields", <<>>)
        extension == dict_get(config, "extension", DefaultExtension)
        separator == dict_get(config, "separator", DefaultSeparator)
        loop == filename_parts(metadata, rename_order, required_fields, <<>>)
    IN IF loop.returned THEN None
       ELSE IF loop.parts = <<>> THEN None
       ELSE join(separator, loop.parts) \o extension

\* ---- inputs
TextChars == {"a", "Z", "1", "_", "-", " ", "\t", "!"}

Texts == UNION {[1..n -> TextChars] : n \in 0..MaxLen}

NameFields == {"artist", "title"}

\* Values of a metadata field: empty, plain, with whitespace, nothing but
\* a disallowed character.
FieldValues == {<<>>, <<"A">>, <<"b", " ", "c">>, <<"!">>}

Metadatas == [NameFields -> FieldValues \cup {Absent}]

RenameOrders == UNION {[1..n -> NameFields] : n \in 0..MaxOrder}

RequiredLists == {<<>>, <<"artist">>, <<"title">>, <<"artist", "title">>}

Configs == [rename_order : RenameOrders \cup {Absent},
            required_fields : RequiredLists \cup {Absent},
            extension : {Absent, <<".", "f", "l", "a", "c">>},
            separator : {Absent, <<"-">>}]

NamesInit ==
    /\ \/ n_kind = "text" /\ n_in \in Texts
       \/ n_kind = "metadata" /\ n_in \in [metadata : Metadatas, config : Configs]
    /\ n_op = "none"
    /\ n_out = <<>>
    /\ RenIdle
    /\ IdentIdle
    /\ MergeIdle
    /\ RetryIdle
    /\ music_files = <<>> /\ min_confidence = 0 /\ max_uploads_per_run = 0
    /\ idx = 0 /\ pc = "idle" /\ summary = ZeroSummary /\ tagged_before = 0
    /\ temp_path = NoPath
    /\ new_name = NoName /\ candidates = <<>> /\ chosen = NoChosen
    /\ updates = NoUpdates /\ path = "none" /\ calls = <<>> /\ outcome = <<>>
    /\ tmpfs = {} /\ uploads = {} /\ deleted = {} /\ result = NoResult

namesFrame == <<loopVars, mergeVars, retryVars, renVars, identVars, n_kind, n_in>>

SanitizeFilename ==
    /\ n_kind = "text"
    /\ n_op = "none"
    /\ n_op' = "sanitize_filename"
    /\ n_out' = sanitize_filename(n_in)
    /\ UNCHANGED namesFrame

NewSanitizeFilename ==
    /\ n_kind = "text"
    /\ n_op = "none"
    /\ n_op' = "new_sanitize_filename"
    /\ n_out' = new_sanitize_filename(n_in)
    /\ UNCHANGED namesFrame

GenerateFilename ==
    /\ n_kind = "metadata"
    /\ n_op = "none"
    /\ n_op' = "generate_filename"
    /\ n_out' = generate_filename(n_in.metadata, n_in.config)
    /\ UNCHANGED namesFrame

NamesNext == SanitizeFilename \/ NewSanitizeFilename \/ GenerateFilename

SpecNames == NamesInit /\ [][NamesNext]_vars

\* ================================================================== renamer.py: files
MaxListed == 2

UpperLetters == <<"A", "B", "C", "D", "E", "F", "G", "H", "I", "J", "K", "L", "M",
                  "N", "O", "P", "Q", "R", "S", "T", "U", "V", "W", "X", "Y", "Z">>

LowerLetters == <<"a", "b", "c", "d", "e", "f", "g", "h", "i", "j", "k", "l", "m",
                  "n", "o", "p", "q", "r", "s", "t", "u", "v", "w", "x", "y", "z">>

\* str.lower()
lower(text) ==
    [i \in 1..Len(text) |->
        IF \E j \in 1..26 : UpperLetters[j] = text[i]
        THEN LowerLetters[CHOOSE j \in 1..26 : UpperLetters[j] = text[i]]
        ELSE text[i]]

\* Position of the last "." of text, 0 without one.
LastDot(text) ==
    IF \E i \in DOMAIN text : text[i] = "."
    THEN CHOOSE i \in DOMAIN text :
            text[i] = "." /\ \A j \in (i + 1)..Len(text) : text[j] # "."
    ELSE 0

\* os.path.splitext(filename): the extension starts at the last dot, unless only
\* dots come before it.
splitext(filename) ==
    LET dot == LastDot(filename)
    IN IF dot > 0 /\ \E j \in 1..(dot - 1) : filename[j] # "."
       THEN [stem |-> SubSeq(filename, 1, dot - 1),
             ext |-> SubSeq(filename, dot, Len(filename))]
       ELSE [stem |-> filename, ext |-> <<>>]

\* file_path.lower().split(".")[-1]
format_of(file_path) ==
    LET low == lower(file_path)
    IN SubSeq(low, LastDot(low) + 1, Len(low))

SupportedFormats == {<<"m", "p", "3">>, <<"f", "l", "a", "c">>, <<"m", "4", "a">>,
                     <<"m", "p", "4">>}

DecimalDigits == <<"0", "1", "2", "3", "4", "5", "6", "7", "8", "9">>

\* str(counter), in f"{stem}_{counter}{ext}"
RECURSIVE decimal(_)
decimal(counter) ==
    IF counter < 10 THEN <<DecimalDigits[counter + 1]>>
    ELSE decimal(counter \div 10) \o <<DecimalDigits[(counter % 10) + 1]>>

\* Mutant of unique_candidate: the first suffix is tried once and returned unchecked.
unique_candidate_once(fs, stem, ext, candidate, counter) ==
    IF candidate \notin fs THEN candidate
    ELSE stem \o <<"_">> \o decimal(counter) \o ext

\* while os.path.exists(candidate): candidate = f"{stem}_{counter}{ext}"; counter += 1
RECURSIVE unique_candidate(_, _, _, _, _)
unique_candidate(fs, stem, ext, candidate, counter) ==
    IF candidate \notin fs THEN candidate
    ELSE unique_candidate(fs, stem, ext, stem \o <<"_">> \o decimal(counter) \o ext,
                          counter + 1)

\* def _unique_path(base_path), in the directory whose existing names are fs
unique_path(fs, base_path) ==
    LET parts == splitext(base_path)
    IN unique_candidate(fs, parts.stem, parts.ext, base_path, 1)

\* rename_music_file: proposed_name = f"{separator.join(cleaned_parts)}{final_ext}"
proposed_name(metadata, file_path, separator) ==
    LET filename_parts_ == <<metadata.bpm, metadata.title, metadata.artist,
                             metadata.comment>>
        truthy == SelectSeq(filename_parts_, LAMBDA part : part # <<>>)
        cleaned_parts == [i \in DOMAIN truthy |-> sanitize_filename(truthy[i])]
    IN join(separator, cleaned_parts) \o splitext(file_path).ext

RenZero == [downloaded |-> 0, renamed |-> 0, uploaded |-> 0, failed |-> 0,
            processed |-> 0, skipped |-> 0]

NoCur == [src |-> <<>>, proposed |-> <<>>, dest |-> <<>>]

\* ---- inputs
NameZ == <<"Z", ".", "M", "P", "3">>
NameTA == <<"T", "_", "_", "A", ".", "m", "p", "3">>
NameTA1 == <<"T", "_", "_", "A", "_", "1", ".", "m", "p", "3">>
NameWav == <<"y", ".", "w", "a", "v">>

\* Names of the files of a Drive listing (two listed files may share a name).
DriveNames == {NameZ, NameTA, NameWav}

\* What get_metadata may return for a downloaded file.
DriveTags ==
    {[bpm |-> <<>>, title |-> <<"T">>, artist |-> <<"A">>, comment |-> <<>>],
     [bpm |-> <<>>, title |-> <<"!">>, artist |-> <<"A">>, comment |-> <<>>],
     [bpm |-> <<>>, title |-> <<>>, artist |-> <<>>, comment |-> <<>>]}

\* Files left in the temp dir by earlier runs.
TempLeftovers == SUBSET {NameTA, NameTA1}

LoopIdle ==
    /\ music_files = <<>> /\ min_confidence = 0 /\ max_uploads_per_run = 0
    /\ idx = 0 /\ pc = "idle" /\ summary = ZeroSummary /\ tagged_before = 0
    /\ temp_path = NoPath
    /\ new_name = NoName /\ candidates = <<>> /\ chosen = NoChosen
    /\ updates = NoUpdates /\ path = "none" /\ calls = <<>> /\ outcome = <<>>
    /\ tmpfs = {} /\ uploads = {} /\ deleted = {} /\ result = NoResult

DriveInit ==
    /\ rn_proc = "drive"
    /\ rn_files \in UNION {[1..n -> DriveNames] : n \in 0..MaxListed}
    /\ rn_special = {}
    /\ rn_config = [separator |-> <<"_", "_">>]
    /\ rn_fs \in TempLeftovers
    /\ rn_idx = 1
    /\ rn_pc = "download"
    /\ rn_summary = RenZero
    /\ rn_cur = NoCur
    /\ rn_outcome = [i \in DOMAIN rn_files |-> "pending"]
    /\ rn_result = NoResult

renFrame == <<loopVars, mergeVars, retryVars, nameVars, identVars, rn_proc, rn_files,
              rn_special, rn_config>>

RenFile == rn_files[rn_idx]

\* The iteration of the current file ends with outcome o; the loop goes on.
RenNextFile(o) ==
    /\ rn_outcome' = [rn_outcome EXCEPT ![rn_idx] = o]
    /\ rn_idx' = rn_idx + 1
    /\ rn_cur' = NoCur

\* Mutant of DriveFailed: the error is logged but not counted.
DriveFailed_uncounted ==
    /\ rn_summary' = rn_summary
    /\ RenNextFile("failed")
    /\ rn_pc' = "download"

\* except Exception: log.error(...); summary["failed"] += 1
DriveFailed ==
    /\ rn_summary' = [rn_summary EXCEPT !.failed = @ + 1]
    /\ RenNextFile("failed")
    /\ rn_pc' = "download"

DriveRunning == rn_proc = "drive" /\ rn_idx <= Len(rn_files)

\* drive.download_file(service, file["id"], temp_path); summary["downloaded"] += 1
DriveDownloadOk ==
    /\ DriveRunning
    /\ rn_pc = "download"
    /\ rn_fs' = rn_fs \cup {RenFile}
    /\ rn_summary' = [rn_summary EXCEPT !.downloaded = @ + 1]
    /\ rn_pc' = "rename"
    /\ UNCHANGED <<renFrame, rn_idx, rn_cur, rn_outcome, rn_result>>

\* download_file raises; it may have left a partial file at temp_path
DriveDownloadRaises ==
    /\ DriveRunning
    /\ rn_pc = "download"
    /\ rn_fs' \in {rn_fs, rn_fs \cup {RenFile}}
    /\ DriveFailed
    /\ UNCHANGED <<renFrame, rn_result>>

\* rename_music_file: metadata = get_metadata(file_path); proposed_path; dest_path
DriveProposeName ==
    /\ DriveRunning
    /\ rn_pc = "rename"
    /\ format_of(RenFile) \in SupportedFormats
    /\ \E metadata \in DriveTags :
          LET proposed == proposed_name(metadata, RenFile, rn_config.separator)
          IN rn_cur' = [src |-> RenFile, proposed |-> proposed,
                        dest |-> unique_path(rn_fs, proposed)]
    /\ rn_pc' = "os_rename"
    /\ UNCHANGED <<renFrame, rn_idx, rn_summary, rn_fs, rn_outcome, rn_result>>

\* get_metadata raises: ValueError for an unsupported format, or the tag library's error
DriveMetadataRaises ==
    /\ DriveRunning
    /\ rn_pc = "rename"
    /\ DriveFailed
    /\ UNCHANGED <<renFrame, rn_fs, rn_result>>

\* os.rename(file_path, dest_path); return dest_path; summary["renamed"] += 1
DriveOsRenameOk ==
    /\ DriveRunning
    /\ rn_pc = "os_rename"
    /\ rn_fs' = (rn_fs \ {rn_cur.src}) \cup {rn_cur.dest}
    /\ rn_summary' = [rn_summary EXCEPT !.renamed = @ + 1]
    /\ rn_pc' = "upload"
    /\ UNCHANGED <<renFrame, rn_idx, rn_cur, rn_outcome, rn_result>>

\* os.rename raises
DriveOsRenameRaises ==
    /\ DriveRunning
    /\ rn_pc = "os_rename"
    /\ DriveFailed
    /\ UNCHANGED <<renFrame, rn_fs, rn_result>>

\* drive.upload_file(service, renamed_path, dest_folder_id); summary["uploaded"] += 1
DriveUploadOk ==
    /\ DriveRunning
    /\ rn_pc = "upload"
    /\ rn_summary' = [rn_summary EXCEPT !.uploaded = @ + 1]
    /\ RenNextFile("uploaded")
    /\ rn_pc' = "download"
    /\ UNCHANGED <<renFrame, rn_fs, rn_result>>

\* upload_file raises
DriveUploadRaises ==
    /\ DriveRunning
    /\ rn_pc = "upload"
    /\ DriveFailed
    /\ UNCHANGED <<renFrame, rn_fs, rn_result>>

\* the listing is exhausted: log the summary, return it
DriveReturn ==
    /\ rn_proc = "drive"
    /\ rn_idx > Len(rn_files)
    /\ rn_pc = "download"
    /\ rn_pc' = "done"
    /\ rn_result' = rn_summary
    /\ UNCHANGED <<renFrame, rn_idx, rn_summary, rn_fs, rn_cur, rn_outcome>>

DriveNext ==
    \/ DriveDownloadOk \/ DriveDownloadRaises
    \/ DriveProposeName \/ DriveMetadataRaises
    \/ DriveOsRenameOk \/ DriveOsRenameRaises
    \/ DriveUploadOk \/ DriveUploadRaises
    \/ DriveReturn

\* ---- rename_files_in_directory
NameA == <<"A", ".", "m", "p", "3">>
NameA1 == <<"A", "_", "1", ".", "m", "p", "3">>

\* Names the scanned directory may hold.
ScanNames == {NameA, NameA1, NameTA, NameWav}

\* What get_metadata may return for a scanned file: artist and title are always keys.
ScanTags == [artist : {<<>>, <<"A">>}, title : {<<>>, <<"T">>}]

ScanConfigs ==
    {[rename_order |-> <<"artist">>, required_fields |-> <<"artist">>,
      extension |-> Absent, separator |-> Absent],
     [rename_order |-> <<"title", "artist">>, required_fields |-> Absent,
      extension |-> Absent, separator |-> Absent]}

\* Every order in which os.walk may list the names of a directory.
Orders(names) ==
    {order \in [1..Cardinality(names) -> names] :
        \A i, j \in DOMAIN order : i # j => order[i] # order[j]}

ScanInit ==
    /\ rn_proc = "scan"
    /\ rn_fs \in {names \in SUBSET ScanNames : Cardinality(names) <= MaxListed}
    /\ rn_files \in Orders(rn_fs)
    \* listed entries that are no regular file (a FIFO, a socket, a device)
    /\ rn_special \in SUBSET (rn_fs \cap {NameA1})
    /\ rn_config \in ScanConfigs
    /\ rn_idx = 1
    /\ rn_pc = "file"
    /\ rn_summary = RenZero
    /\ rn_cur = NoCur
    /\ rn_outcome = [i \in DOMAIN rn_files |-> "pending"]
    /\ rn_result = NoResult

ScanRunning == rn_proc = "scan" /\ rn_idx <= Len(rn_files)

\* if not os.path.isfile(full_path): continue
ScanSkipNotFile ==
    /\ ScanRunning
    /\ rn_pc = "file"
    /\ RenFile \in rn_special
    /\ RenNextFile("not_file")
    /\ UNCHANGED <<renFrame, rn_pc, rn_summary, rn_fs, rn_result>>

\* Mutant of ScanFailed: the error is logged but not counted.
ScanFailed_uncounted(s) ==
    /\ rn_summary' = s
    /\ RenNextFile("failed")
    /\ rn_pc' = "file"

\* except ValueError / OSError / Exception: summary["failed"] += 1, from the
\* summary s the iteration has reached
ScanFailed(s) ==
    /\ rn_summary' = [s EXCEPT !.failed = @ + 1]
    /\ RenNextFile("failed")
    /\ rn_pc' = "file"

\* summary["processed"] += 1
Processed == [rn_summary EXCEPT !.processed = @ + 1]

\* get_metadata raises: ValueError for an unsupported format, or the tag library's error
ScanMetadataRaises ==
    /\ ScanRunning
    /\ rn_pc = "file"
    /\ RenFile \notin rn_special
    /\ ScanFailed(Processed)
    /\ UNCHANGED <<renFrame, rn_fs, rn_result>>

\* new_name = generate_filename(metadata, config); if not new_name: skipped, continue
ScanNoName ==
    /\ ScanRunning
    /\ rn_pc = "file"
    /\ RenFile \notin rn_special
    /\ format_of(RenFile) \in SupportedFormats
    /\ \E metadata \in ScanTags : generate_filename(metadata, rn_config) \in {None, <<>>}
    /\ rn_summary' = [Processed EXCEPT !.skipped = @ + 1]
    /\ RenNextFile("skipped")
    /\ UNCHANGED <<renFrame, rn_pc, rn_fs, rn_result>>

\* new_path = _unique_path(os.path.join(root, new_name)); skipped when it is the
\* file's own path
ScanProposeName ==
    /\ ScanRunning
    /\ rn_pc = "file"
    /\ RenFile \notin rn_special
    /\ format_of(RenFile) \in SupportedFormats
    /\ \E metadata \in ScanTags :
          LET name == generate_filename(metadata, rn_config)
              new_path == unique_path(rn_fs, name)
          IN /\ name \notin {None, <<>>}
             /\ IF new_path = RenFile
                THEN /\ rn_summary' = [Processed EXCEPT !.skipped = @ + 1]
                     /\ RenNextFile("skipped")
                     /\ rn_pc' = "file"
                ELSE /\ rn_summary' = Processed
                     /\ rn_cur' = [src |-> RenFile, proposed |-> name, dest |-> new_path]
                     /\ rn_pc' = "os_rename"
                     /\ UNCHANGED <<rn_idx, rn_outcome>>
    /\ UNCHANGED <<renFrame, rn_fs, rn_result>>

\* os.rename(full_path, new_path); summary["renamed"] += 1
ScanOsRenameOk ==
    /\ ScanRunning
    /\ rn_pc = "os_rename"
    /\ rn_fs' = (rn_fs \ {rn_cur.src}) \cup {rn_cur.dest}
    /\ rn_summary' = [rn_summary EXCEPT !.renamed = @ + 1]
    /\ RenNextFile("renamed")
    /\ rn_pc' = "file"
    /\ UNCHANGED <<renFrame, rn_result>>

\* os.rename raises OSError
ScanOsRenameRaises ==
    /\ ScanRunning
    /\ rn_pc = "os_rename"
    /\ ScanFailed(rn_summary)
    /\ UNCHANGED <<renFrame, rn_fs, rn_result>>

\* the walk is exhausted: log the summary, return it
ScanReturn ==
    /\ rn_proc = "scan"
    /\ rn_idx > Len(rn_files)
    /\ rn_pc = "file"
    /\ rn_pc' = "done"
    /\ rn_result' = rn_summary
    /\ UNCHANGED <<renFrame, rn_idx, rn_summary, rn_fs, rn_cur, rn_outcome>>

ScanNext ==
    \/ ScanSkipNotFile
    \/ ScanMetadataRaises
    \/ ScanNoName
    \/ ScanProposeName
    \/ ScanOsRenameOk \/ ScanOsRenameRaises
    \/ ScanReturn

RenInit ==
    /\ LoopIdle
    /\ MergeIdle
    /\ RetryIdle
    /\ NamesIdle
    /\ IdentIdle
    /\ DriveInit \/ ScanInit

RenNext == DriveNext \/ ScanNext

SpecRenamer == RenInit /\ [][RenNext]_vars

\* ================================================================== identify
MaxRows == 2
MaxCap == 2

\* A score that is no number: float(score) fails on it (match), or the result
\* carries no score (lookup).
NoScore == -1

TrackId(id, confidence) == [provider |-> "musicbrainz", id |-> id, confidence |-> confidence]

\* try: score_f = float(score) / except Exception: score_f = 0.0
float_or_zero(score) == IF score = NoScore THEN 0 ELSE score

\* float(r.get("score", 0.0) or 0.0)
lookup_score(score) == IF score = NoScore THEN 0 ELSE score

\* x is put behind every element whose key is at least its own.
insert_desc(sorted, x, key) ==
    LET k == Cardinality({i \in DOMAIN sorted : sorted[i][key] >= x[key]})
    IN SubSeq(sorted, 1, k) \o <<x>> \o SubSeq(sorted, k + 1, Len(sorted))

\* sorted(s, key=..., reverse=True) and list.sort(key=..., reverse=True): stable
RECURSIVE sorted_desc(_, _)
sorted_desc(s, key) ==
    IF s = <<>> THEN <<>>
    ELSE insert_desc(sorted_desc(SubSeq(s, 1, Len(s) - 1), key), s[Len(s)], key)

\* s[:n]
slice_to(s, n) ==
    IF n >= 0 THEN SubSeq(s, 1, IF n < Len(s) THEN n ELSE Len(s))
    ELSE SubSeq(s, 1, IF Len(s) + n > 0 THEN Len(s) + n ELSE 0)

\* retagger_api.py: the candidates kept from the rows of acoustid.match
match_candidates(rows, min_conf) ==
    LET kept == SelectSeq(rows, LAMBDA r : /\ r.recording_id # ""
                                           /\ ~(float_or_zero(r.score) < min_conf))
    IN [i \in DOMAIN kept |-> TrackId(kept[i].recording_id, float_or_zero(kept[i].score))]

\* retagger_api.py identify, direct match: filter, sort by confidence desc, cap
identify_match(rows, min_conf, max_candidates) ==
    slice_to(sorted_desc(match_candidates(rows, min_conf), "confidence"), max_candidates)

\* for rec in recs: rid = rec.get("id"); if rid: candidates2.append(...)
recording_candidates(recs, score) ==
    LET kept == SelectSeq(recs, LAMBDA rid : rid # "")
    IN [i \in DOMAIN kept |-> TrackId(kept[i], score)]

\* retagger_api.py: the candidates kept from the results of acoustid.lookup
RECURSIVE lookup_candidates(_, _)
lookup_candidates(results, min_conf) ==
    IF results = <<>> THEN <<>>
    ELSE LET r == Head(results)
             score == lookup_score(r.score)
         IN (IF score < min_conf THEN <<>> ELSE recording_candidates(r.recordings, score))
            \o lookup_candidates(Tail(results), min_conf)

\* Mutant of identify_lookup: the candidates are capped in the order of the answer.
identify_lookup_unsorted(results, min_conf, max_candidates) ==
    slice_to(lookup_candidates(results, min_conf), max_candidates)

\* retagger_api.py identify, fpcalc fallback: filter, sort by confidence desc, cap
identify_lookup(results, min_conf, max_candidates) ==
    slice_to(sorted_desc(lookup_candidates(results, min_conf), "confidence"),
             max_candidates)

\* retagger.py: for score, recording_id, ... in sorted(results, ...): unique ids,
\* break once len(ranked) >= self.max_candidates
RECURSIVE ranked_loop(_, _, _, _)
ranked_loop(rows, seen, ranked, max_candidates) ==
    IF rows = <<>> THEN ranked
    ELSE LET r == Head(rows)
         IN IF r.recording_id = "" \/ r.recording_id \in seen
            THEN ranked_loop(Tail(rows), seen, ranked, max_candidates)
            ELSE LET longer == Append(ranked, TrackId(r.recording_id, r.score))
                 IN IF Len(longer) >= max_candidates THEN longer
                    ELSE ranked_loop(Tail(rows), seen \cup {r.recording_id}, longer,
                                     max_candidates)

\* retagger.py identify: self.min_confidence is stored by __init__ and not read here
identify_ranked(rows, min_conf, max_candidates) ==
    IF rows = <<>> THEN <<>>
    ELSE ranked_loop(sorted_desc(rows, "score"), {}, <<>>, max_candidates)

\* chosen = max(candidates, key=lambda c: c.confidence, default=None): the first
\* of the candidates with the highest confidence
max_by_confidence(cands) ==
    cands[CHOOSE i \in DOMAIN cands :
             /\ \A j \in DOMAIN cands : cands[j].confidence <= cands[i].confidence
             /\ \A j \in 1..(i - 1) : cands[j].confidence < cands[i].confidence]

\* ---- inputs
RecordingIds == {"", "r1", "r2"}

\* Rows of acoustid.match: (score, recording_id, title, artist)
MatchRows == [score : Confidences \cup {NoScore}, recording_id : RecordingIds]

\* Results of acoustid.lookup: a score and the recordings of the result
LookupResults == [score : Confidences \cup {NoScore},
                  recordings : {<<>>, <<"r1">>, <<"", "r2">>}]

SeqsUpTo(S, n) == UNION {[1..k -> S] : k \in 0..n}

IdentInit ==
    /\ id_in \in
          [proc : {"api_match"}, rows : SeqsUpTo(MatchRows, MaxRows),
           min_confidence : Confidences, max_candidates : 0..MaxCap]
          \cup [proc : {"api_lookup"}, rows : SeqsUpTo(LookupResults, MaxRows),
                min_confidence : Confidences, max_candidates : 0..MaxCap]
          \cup [proc : {"retagger"},
                rows : SeqsUpTo({r \in MatchRows : r.score # NoScore}, MaxRows),
                min_confidence : Confidences, max_candidates : 0..MaxCap]
    /\ id_pc = "call"
    /\ id_out = <<>>
    /\ id_run = <<>>
    /\ LoopIdle
    /\ MergeIdle
    /\ RetryIdle
    /\ NamesIdle
    /\ RenIdle

identFrame == <<loopVars, mergeVars, retryVars, nameVars, renVars, id_in>>

\* retagger_api.py: results = acoustid.match(...); return candidates[:max_candidates]
ApiMatchReturns ==
    /\ id_in.proc = "api_match"
    /\ id_pc = "call"
    /\ id_out' = identify_match(id_in.rows, id_in.min_confidence, id_in.max_candidates)
    /\ id_pc' = "returned"
    /\ UNCHANGED <<identFrame, id_run>>

\* retagger_api.py: match raised; lookup = acoustid.lookup(...);
\* return candidates2[:max_candidates]
ApiLookupReturns ==
    /\ id_in.proc = "api_lookup"
    /\ id_pc = "call"
    /\ id_out' = identify_lookup(id_in.rows, id_in.min_confidence, id_in.max_candidates)
    /\ id_pc' = "returned"
    /\ UNCHANGED <<identFrame, id_run>>

\* retagger.py: results = acoustid.match(...); return ranked
RetaggerMatchReturns ==
    /\ id_in.proc = "retagger"
    /\ id_pc = "call"
    /\ id_out' = identify_ranked(id_in.rows, id_in.min_confidence, id_in.max_candidates)
    /\ id_pc' = "returned"
    /\ UNCHANGED <<identFrame, id_run>>

\* every attempt failed, or the audio could not be decoded: return []
IdentifyGivesUp ==
    /\ id_pc = "call"
    /\ id_out' = <<>>
    /\ id_pc' = "returned"
    /\ UNCHANGED <<identFrame, id_run>>

\* TaggingDriver.run: if not chosen: return TaggingResult(path, candidates, None, None, False)
RunNothingChosen ==
    /\ id_in.proc = "retagger"
    /\ id_pc = "returned"
    /\ id_out = <<>>
    /\ id_run' = [chosen |-> <<>>, wrote_tags |-> FALSE]
    /\ id_pc' = "ran"
    /\ UNCHANGED <<identFrame, id_out>>

\* TaggingDriver.run: meta = fetch(chosen); tag_io.write(path, meta); wrote_tags=True
RunWritesTags ==
    /\ id_in.proc = "retagger"
    /\ id_pc = "returned"
    /\ id_out # <<>>
    /\ id_run' = [chosen |-> <<max_by_confidence(id_out)>>, wrote_tags |-> TRUE]
    /\ id_pc' = "ran"
    /\ UNCHANGED <<identFrame, id_out>>

\* TaggingDriver.run: fetch or write raises, and so does run
RunRaises ==
    /\ id_in.proc = "retagger"
    /\ id_pc = "returned"
    /\ id_out # <<>>
    /\ id_pc' = "raised"
    /\ UNCHANGED <<identFrame, id_out, id_run>>

IdentNext ==
    \/ ApiMatchReturns \/ ApiLookupReturns \/ RetaggerMatchReturns \/ IdentifyGivesUp
    \/ RunNothingChosen \/ RunWritesTags \/ RunRaises

SpecIdentify == IdentInit /\ [][IdentNext]_vars

\* ================================================================== claims: driver loop
\* The step just taken was an external call of the try body that raised.
Raised ==
    /\ pc \in RaisingSteps
    /\ Len(calls') = Len(calls) + 1
    /\ ~calls'[Len(calls')].ok

OtherCountersKept ==
    \A k \in {"scanned", "downloaded", "identified", "tagged", "uploaded", "deleted"} :
        summary'[k] = summary[k]

\* C1: when a step for a listed file with an id raises, the exception is caught:
\* 'failed' grows by exactly 1 for that file (and by nothing else), the loop goes
\* on with the next file of the listing, and the function still returns the summary.
C1_PerFileExceptionCounted ==
    /\ [][/\ Raised => /\ summary'.failed = summary.failed + 1
                       /\ OtherCountersKept
                       /\ pc' = "finally"
          /\ ~Raised => summary'.failed = summary.failed
          /\ pc = "finally" => (pc' = "loop_head" /\ idx' = idx + 1)
          /\ pc' = "done" => /\ pc = "loop_head"
                             /\ result' = summary
                             /\ (idx > Len(music_files) \/ UploadLimitReached)]_vars
    /\ [](pc \in {"loop_head", "branch", "rename", "finally", "done"} \cup RaisingSteps)
    /\ [](pc # "done" => ENABLED LoopNext)
    /\ [](summary.failed = Cardinality({i \in DOMAIN outcome : outcome[i] = "failed"}))

\* C1 witness: a run that returned after a file failed and a later file was still
\* processed to the end.
C1_Witness ==
    /\ pc = "done"
    /\ result = summary
    /\ \E i, j \in DOMAIN outcome :
          i < j /\ outcome[i] = "failed" /\ outcome[j] = "deleted"

Before(op1, op2) ==
    \A j \in DOMAIN calls :
        calls[j].op = op2 =>
            \E i \in 1..(j - 1) : calls[i].op = op1 /\ calls[i].ok

\* C2: for every file the calls come in the order download, tag write, upload,
\* delete: upload_file is called only after tags.write returned, delete_file only
\* after upload_file of the same file returned; no original is deleted without a
\* successfully uploaded copy.
C2_OrderOfRemoteOperations ==
    /\ Before("download", "write")
    /\ Before("write", "upload")
    /\ Before("upload", "delete")
    /\ deleted \subseteq {u.file : u \in uploads}

\* C2 witness: a file of the identified path was downloaded, written, uploaded and
\* deleted.
C2_Witness ==
    /\ pc = "finally"
    /\ path = "identified"
    /\ FileId \in deleted
    /\ \E u \in uploads : u.file = FileId
    /\ \E j \in DOMAIN calls : calls[j] = Call("delete", TRUE)

NewUpload == CHOOSE u \in uploads' \ uploads : TRUE

\* C10: a downloaded file takes the identified path ('identified' incremented,
\* metadata fetched, upload to the destination folder) iff the candidate list is
\* non-empty and some confidence reaches min_confidence (equality accepted);
\* otherwise the existing tags are re-written, the file is uploaded to the source
\* folder under its original name, and 'identified' is unchanged.
C10_ThresholdDecidesPath ==
    /\ [][/\ pc = "branch" =>
               IF \E i \in DOMAIN candidates : candidates[i] >= min_confidence
               THEN /\ path' = "identified"
                    /\ summary'.identified = summary.identified + 1
                    /\ pc' = "fetch"
               ELSE /\ path' = "passthrough"
                    /\ summary'.identified = summary.identified
                    /\ pc' = "pt_write"
          /\ pc # "branch" => summary'.identified = summary.identified
          /\ uploads' # uploads =>
               /\ path \in {"identified", "passthrough"}
               /\ path = "identified" => NewUpload.parent = "dest"
               /\ path = "passthrough" => /\ NewUpload.parent = "source"
                                          /\ NewUpload.dest_name = CurFile.name
                                          /\ NewUpload.file = CurFile.id]_vars
    /\ [](\A j \in DOMAIN calls : calls[j].op = "fetch" => path = "identified")

\* C10 witness: a best confidence equal to the threshold was accepted and the file
\* uploaded to the destination folder.
C10_Witness ==
    /\ path = "identified"
    /\ chosen = min_confidence
    /\ \E u \in uploads : u.file = FileId /\ u.parent = "dest"

\* ================================================================== claims: tag merge
NineKeys == {"tracktitle", "artist", "album", "albumartist", "year", "bpm", "isrc",
             "tracknumber", "discnumber"}

\* A value is empty when it is missing or holds nothing but whitespace.
IsEmpty(v) == v = None \/ \A i \in DOMAIN v : v[i] = " "

\* The existing tag value of a compared field; for year, the 'year' tag or else 'date'.
ExistingValue(k) == IF k = "year" THEN existing_year_raw(existing) ELSE existing[k]

NewValue(k) == new_meta[FieldOf(k)]

\* Equality after the normalization the field is compared under.
NormEqual(k, a, b) == IF k = "year" THEN norm_year(a) = norm_year(b) ELSE norm(a) = norm(b)

Merged == mphase = "built" /\ built.via = "conflict_logging"

\* C3: for each of the nine compared fields the update carries a value only if the
\* new value is non-empty and the existing tag value is empty or equals the new
\* value after normalization; an existing non-empty value that differs from the new
\* value after normalization is never overwritten.
C3_NoConflictingOverwrite ==
    Merged =>
        \A k \in NineKeys :
            built.updates[FieldOf(k)] # None =>
                /\ ~IsEmpty(NewValue(k))
                /\ \/ IsEmpty(ExistingValue(k))
                   \/ NormEqual(k, ExistingValue(k), NewValue(k))

\* C4: had_conflict is true iff one of the nine compared fields has a non-empty
\* existing value and a non-empty new value that differ after normalization; genre
\* and comment never set the flag.
C4_ConflictFlagExact ==
    Merged =>
        (built.had_conflict <=>
            \E k \in NineKeys :
                /\ ~IsEmpty(ExistingValue(k))
                /\ ~IsEmpty(NewValue(k))
                /\ ~NormEqual(k, ExistingValue(k), NewValue(k)))

\* C5: genre is fill-only: the genre update has a value only when the existing
\* genre is empty and the new genre is not; with a non-empty existing genre the
\* update is None whatever the new genre is.
C5_GenreFillOnly ==
    Merged =>
        /\ built.updates.genre # None =>
              IsEmpty(existing["genre"]) /\ ~IsEmpty(new_meta.genre)
        /\ ~IsEmpty(existing["genre"]) => built.updates.genre = None

\* C5 witness: an existing genre kept although a new genre was fetched.
C5_Witness ==
    /\ Merged
    /\ ~IsEmpty(existing["genre"])
    /\ ~IsEmpty(new_meta.genre)
    /\ built.updates.genre = None

\* The comment rule as the claim states it, on the comment c.
PrefixRule(c) ==
    IF c = <<>> THEN KAT
    ELSE IF startswith(c, KAT) THEN c
    ELSE KAT \o <<" ">> \o c

\* C6 as stated: the rule is applied to the existing comment itself.
C6_CommentRuleOnRawComment ==
    Merged => built.updates.comment = PrefixRule(safe_str(existing["comment"]))

\* C6 (amended): the comment update is never None and starts with <KAT_v1>; it is
\* the prefix rule applied to the existing comment stripped of surrounding
\* whitespace; applying the merge to its own output returns that output.
C6_CommentRuleOnStrippedComment ==
    Merged =>
        /\ built.updates.comment # None
        /\ startswith(built.updates.comment, KAT)
        /\ built.updates.comment = PrefixRule(strip(safe_str(existing["comment"])))
        /\ build_updates_with_conflict_logging(
               [existing EXCEPT !["comment"] = built.updates.comment],
               new_meta).updates.comment = built.updates.comment

\* C6 witness: a padded comment without the prefix received it, once.
C6_Witness ==
    /\ Merged
    /\ existing["comment"] = <<"a", " ">>
    /\ built.updates.comment = KAT \o <<" ", "a">>

\* C7: MusicTagIO.write assigns a tag key only for the update fields that are not
\* None; every tag whose update field is None (and every tag outside the mapping)
\* has the same value after the write as before it.
C7_AbsentMeansNotWritten ==
    /\ mphase = "written" =>
          \A k \in TagKeys :
              /\ (k \notin MappingKeys \/ built.updates[FieldOf(k)] = None) =>
                    file.tags[k] = existing[k]
              /\ file.tags[k] # existing[k] => file.tags[k] = built.updates[FieldOf(k)]
    /\ mphase = "written" => (built.updates.year = None => file.id3 = NoFrames)
    /\ mphase = "write_failed" => file.tags = existing

\* C7 witness: a write that assigned one tag and left alone an existing tag whose
\* update was None.
C7_Witness ==
    /\ mphase = "written"
    /\ \E k \in MappingKeys :
          built.updates[FieldOf(k)] = None /\ existing[k] # None /\ file.tags[k] = existing[k]
    /\ \E k \in MappingKeys :
          built.updates[FieldOf(k)] # None /\ file.tags[k] # existing[k]

\* ================================================================== claims: retry loops
\* The attempts and the waits between them (throttling and the fallback lookup of
\* an attempt left out).
Attempts == SelectSeq(r_log, LAMBDA e : e.ev \in {"lookup", "sleep"})

LookupsUpTo(L, i) == Cardinality({j \in 1..i : L[j].ev = "lookup"})

FailedLookup(e) == e.ev = "lookup" /\ ~e.ok

\* At most n lookups; the k-th lookup (k > 1) comes right after a wait of
\* sleep_s * (k - 1), which comes right after the failed lookup k - 1; no other waits.
LinearBackoff(L, n, sleep_s) ==
    \A i \in DOMAIN L :
        LET k == LookupsUpTo(L, i)
        IN /\ L[i].ev = "lookup" =>
                /\ k <= n
                /\ k = 1 => i = 1
                /\ k > 1 => /\ i > 2
                            /\ L[i - 1] = Event("sleep", TRUE, sleep_s * (k - 1))
                            /\ FailedLookup(L[i - 2])
           /\ L[i].ev = "sleep" =>
                /\ i > 1
                /\ FailedLookup(L[i - 1])
                /\ k < n

AllLookupsFailed(L) == \A i \in DOMAIN L : L[i].ev = "lookup" => ~L[i].ok

\* C8: fetch with retries = n >= 1 makes at most n lookups, returns the metadata of
\* the first successful attempt, waits retry_sleep_s * k after failed attempt k < n,
\* and raises RuntimeError after the n-th failed attempt, without a further attempt.
C8_FetchRetriesWithLinearBackoff ==
    (r_proc = "fetch" /\ r_retries >= 1) =>
        LET L == Attempts
        IN /\ LinearBackoff(L, r_retries, r_sleep_s)
           /\ r_result \in {"running", "returned_meta", "raised_RuntimeError"}
           /\ \A i \in DOMAIN L :
                 (L[i].ev = "lookup" /\ L[i].ok) =>
                     i = Len(L) /\ r_result = "returned_meta"
           /\ r_result = "returned_meta" => L # <<>> /\ L[Len(L)].ok
           /\ r_result = "running" => AllLookupsFailed(L)
           /\ r_result = "raised_RuntimeError" =>
                 /\ AllLookupsFailed(L)
                 /\ LookupsUpTo(L, Len(L)) = r_retries
                 /\ FailedLookup(L[Len(L)])

\* C8 witness: every one of n >= 2 attempts failed and fetch raised RuntimeError.
C8_Witness ==
    /\ r_proc = "fetch"
    /\ r_retries >= 2
    /\ r_result = "raised_RuntimeError"
    /\ Len(Attempts) = 2 * r_retries - 1

\* C9: identify never propagates a lookup failure: for any retries >= 0 it makes at
\* most `retries` attempts, waits retry_sleep_s * attempt between failed attempts,
\* and returns an empty list when every attempt failed (also when retries is 0).
C9_IdentifyNeverRaises ==
    r_proc \in IdentifyProcs =>
        LET L == Attempts
        IN /\ r_result \in {"running", "returned_candidates", "returned_empty"}
           /\ LinearBackoff(L, r_retries, r_sleep_s)
           /\ r_retries = 0 => r_log = <<>>
           /\ (r_result # "running" /\ \A i \in DOMAIN r_log : ~r_log[i].ok \/ r_log[i].ev = "sleep")
                 => r_result = "returned_empty"
           /\ (r_result # "running" /\ L # <<>>) => L[Len(L)].ev = "lookup"

\* C9 witness: every one of n >= 2 attempts failed, fallback included, and identify
\* returned the empty list.
C9_Witness ==
    /\ r_proc = "identify_api"
    /\ r_retries >= 2
    /\ r_result = "returned_empty"
    /\ AllLookupsFailed(Attempts)
    /\ LookupsUpTo(Attempts, Len(Attempts)) = r_retries
    /\ \E i \in DOMAIN r_log : r_log[i] = Event("fallback", FALSE, 0)

\* ================================================================== claims: passthrough
Passthrough == mphase = "built" /\ built.via = "passthrough"

PlainKeys == TagKeys \ {"year", "date", "isrc"}

\* The tag the year is taken from: 'year', or else 'date'.
YearSource == IF existing["year"] \in {None, <<>>} THEN existing["date"]
              ELSE existing["year"]

\* C17: the passthrough record invents nothing: a non-None field is the stripped
\* value of its existing tag (for year: the four leading digits of the stripped
\* 'year' tag, or else 'date' tag), a field whose tag is missing or blank is None,
\* and isrc is always None.
C17_PassthroughInventsNothing ==
    Passthrough =>
        /\ \A k \in PlainKeys :
              LET u == built.updates[FieldOf(k)]
              IN /\ u # None => (~IsEmpty(existing[k]) /\ u = strip(existing[k]))
                 /\ IsEmpty(existing[k]) => u = None
        /\ LET y == built.updates.year
           IN /\ y # None =>
                    /\ YearSource # None
                    /\ Len(y) = 4
                    /\ \A i \in 1..4 : IsDigit(y[i])
                    /\ y = SubSeq(strip(YearSource), 1, 4)
              /\ (IsEmpty(existing["year"]) /\ IsEmpty(existing["date"])) => y = None
        /\ built.updates.isrc = None

\* C17 witness: a padded comment is passed through stripped, next to an isrc tag
\* that is not passed through.
C17_Witness ==
    /\ Passthrough
    /\ existing["comment"] = <<"a", " ">>
    /\ built.updates.comment = <<"a">>
    /\ existing["isrc"] # None
    /\ built.updates.isrc = None

\* ================================================================== claims: counters
WriteReturned == \E j \in DOMAIN calls : calls[j] = Call("write", TRUE)

\* C18: 'tagged' is incremented for a file iff the tag write for that file
\* returned: once the iteration reaches its end, a file whose write returned has
\* been counted, and no file is counted without a write that returned.
C18_TaggedIffWriteReturned ==
    /\ summary.tagged \in {tagged_before, tagged_before + 1}
    /\ summary.tagged = tagged_before + 1 => WriteReturned
    /\ (pc = "finally" /\ WriteReturned) => summary.tagged = tagged_before + 1

RenameFailed == \E j \in DOMAIN calls : calls[j] = Call("rename", FALSE)

\* C19: a failed local rename is not fatal for the file: 'failed' (and every other
\* counter) is left alone, the next step is the upload to the destination folder,
\* made from the un-renamed temporary path under the new name, and the delete of
\* the original follows it.
C19_RenameFailureNotFatal ==
    /\ [][/\ (pc = "rename" /\ Len(calls') = Len(calls) + 1 /\ ~calls'[Len(calls')].ok) =>
                /\ summary' = summary
                /\ outcome' = outcome
                /\ temp_path' = temp_path
                /\ pc' = "upload"
          /\ (RenameFailed /\ uploads' # uploads) =>
                /\ NewUpload = [file |-> FileId, parent |-> "dest",
                                dest_name |-> new_name, from |-> <<FileId, OrigName>>]
                /\ new_name # OrigName
                /\ pc' = "delete"
          /\ (RenameFailed /\ deleted' # deleted) =>
                /\ deleted' = deleted \cup {FileId}
                /\ summary'.failed = summary.failed
                /\ \E u \in uploads : u.file = FileId]_vars
    /\ [](RenameFailed => pc \in {"upload", "delete", "finally"})

\* C19 witness: after a failed rename the file was uploaded from its un-renamed
\* path under the new name and the original was deleted, with no failure counted.
C19_Witness ==
    /\ pc = "finally"
    /\ RenameFailed
    /\ outcome[idx] = "deleted"
    /\ summary.failed = 0
    /\ \E u \in uploads :
          /\ u.file = FileId /\ u.parent = "dest"
          /\ u.from = <<FileId, OrigName>> /\ u.dest_name # OrigName

\* C20: in every reachable state deleted <= uploaded <= downloaded <= scanned and
\* identified <= downloaded, and no counter ever decreases.
C20_CounterOrder ==
    /\ [](/\ summary.deleted <= summary.uploaded
          /\ summary.uploaded <= summary.downloaded
          /\ summary.downloaded <= summary.scanned
          /\ summary.identified <= summary.downloaded)
    /\ [][\A k \in DOMAIN summary : summary'[k] >= summary[k]]_vars

\* C20 witness: a run that ended with every inequality strict somewhere: an upload
\* whose delete failed, and a scanned file that was never downloaded.
C20_Witness ==
    /\ pc = "done"
    /\ summary.deleted < summary.uploaded
    /\ summary.downloaded < summary.scanned
    /\ summary.identified < summary.downloaded

\* ================================================================== claims: names
Generated == n_op = "generate_filename"

\* C13: generate_filename returns None whenever a field of required_fields is
\* missing from the metadata or has an empty value.
C13_RequiredFieldsEnforced ==
    Generated =>
        LET required == dict_get(n_in.config, "required_fields", <<>>)
        IN (\E i \in DOMAIN required :
               dict_get(n_in.metadata, required[i], <<>>) = <<>>) => n_out = None

\* The sanitized values of the fields of rename_order, in order, without the empty ones.
Contributed ==
    LET order == dict_get(n_in.config, "rename_order", <<>>)
    IN SelectSeq([i \in DOMAIN order |->
                     sanitize_filename(dict_get(n_in.metadata, order[i], <<>>))],
                 LAMBDA v : v # <<>>)

\* C14: a generated name is the sanitized non-empty values of the fields of
\* rename_order, in that order, joined by the separator (default '__') and followed
\* by the extension (default '.mp3'); a field whose value is missing or sanitizes
\* to "" adds no part and no separator; with no part at all the result is None.
C14_NameIsJoinedParts ==
    Generated =>
        LET separator == dict_get(n_in.config, "separator", <<"_", "_">>)
            extension == dict_get(n_in.config, "extension", <<".", "m", "p", "3">>)
        IN /\ n_out # None => n_out = join(separator, Contributed) \o extension
           /\ Contributed = <<>> => n_out = None

\* C14 witness: of two fields in rename_order one sanitizes to "", and the name is
\* the other one and the default extension, with no separator.
C14_Witness ==
    /\ Generated
    /\ n_in.config.rename_order = <<"artist", "title">>
    /\ n_in.metadata["artist"] = <<"!">>
    /\ n_in.config.separator = Absent
    /\ n_out = <<"A", ".", "m", "p", "3">>

\* What the character at position i of v becomes.
Piece(v, i) ==
    IF v[i] \in Whitespace
    THEN IF i > 1 /\ v[i - 1] \in Whitespace THEN <<>> ELSE <<"_">>
    ELSE IF v[i] \in AsciiLower \cup AsciiUpper \cup AsciiDigit \cup {"_", "-"}
         THEN <<v[i]>> ELSE <<>>

RECURSIVE Pieces(_, _)
Pieces(v, i) == IF i > Len(v) THEN <<>> ELSE Piece(v, i) \o Pieces(v, i + 1)

\* C15: sanitize_filename returns only characters of a-z, A-Z, 0-9, '_', '-': each
\* run of whitespace becomes one '_', every other disallowed character is removed,
\* and sanitizing the result again changes nothing. new_sanitize_filename keeps
\* the length and replaces each character outside a-z, A-Z, 0-9, '_' by '_'.
C15_SanitizeFilename ==
    /\ n_op = "sanitize_filename" =>
          /\ \A i \in DOMAIN n_out :
                n_out[i] \in AsciiLower \cup AsciiUpper \cup AsciiDigit \cup {"_", "-"}
          /\ n_out = Pieces(n_in, 1)
          /\ sanitize_filename(n_out) = n_out
    /\ n_op = "new_sanitize_filename" =>
          /\ Len(n_out) = Len(n_in)
          /\ \A i \in DOMAIN n_in :
                n_out[i] = IF n_in[i] \in AsciiLower \cup AsciiUpper \cup AsciiDigit \cup {"_"}
                           THEN n_in[i] ELSE "_"

\* C15 witness: a run of two whitespace characters became one '_' and a disallowed
\* character was removed.
C15_Witness ==
    /\ n_op = "sanitize_filename"
    /\ n_in = <<" ", "\t", "!">>
    /\ n_out = <<"_">>

\* ================================================================== claims: renamer
InDrive == rn_proc = "drive"

InScan == rn_proc = "scan"

\* The step ends the iteration of the current file with a failure.
FileFails == rn_idx \in DOMAIN rn_outcome /\ rn_outcome'[rn_idx] = "failed"

\* C11: process_drive_folder handles every listed file exactly once and never
\* aborts on a per-file error: the position in the listing only ever moves one
\* file forward, every step in which the download, the rename or the upload of a
\* file fails adds exactly 1 to failed and moves on to the next file, and the
\* function returns only after the last listed file, with
\* uploaded + failed = number of listed files; throughout,
\* uploaded <= renamed <= downloaded.
C11_EveryFileOnce ==
    /\ [](InDrive =>
            /\ rn_summary.uploaded <= rn_summary.renamed
            /\ rn_summary.renamed <= rn_summary.downloaded
            /\ rn_summary.uploaded + rn_summary.failed = rn_idx - 1)
    /\ [](InDrive /\ rn_pc = "done" =>
            /\ rn_result = rn_summary
            /\ rn_result.uploaded + rn_result.failed = Len(rn_files)
            /\ \A i \in DOMAIN rn_files : rn_outcome[i] \in {"uploaded", "failed"})
    /\ [][InDrive =>
            /\ rn_idx' \in {rn_idx, rn_idx + 1}
            /\ FileFails =>
                  /\ rn_summary'.failed = rn_summary.failed + 1
                  /\ rn_idx' = rn_idx + 1
                  /\ rn_pc' = "download"]_vars

\* Two listed files were handled: one failed, the other was uploaded.
C11_Witness ==
    /\ InDrive
    /\ rn_pc = "done"
    /\ rn_result.failed = 1
    /\ rn_result.uploaded = 1
    /\ rn_outcome[1] = "failed"

\* stem_k.ext of a path p
suffixed(p, k) == splitext(p).stem \o <<"_">> \o decimal(k) \o splitext(p).ext

\* C12: the destination that _unique_path returns is the proposed path when no
\* file exists there, and otherwise stem_k.ext for the smallest k >= 1 for which
\* no such file exists; it never names an existing file, so the rename that
\* follows removes the source name and adds one new name: no file is replaced.
C12_UniquePath ==
    /\ [](rn_pc = "os_rename" =>
            /\ rn_cur.dest \notin rn_fs
            /\ rn_cur.proposed \notin rn_fs => rn_cur.dest = rn_cur.proposed
            /\ rn_cur.proposed \in rn_fs =>
                  \E k \in 1..(Cardinality(rn_fs) + 1) :
                     /\ rn_cur.dest = suffixed(rn_cur.proposed, k)
                     /\ \A j \in 1..(k - 1) : suffixed(rn_cur.proposed, j) \in rn_fs)
    /\ [][rn_pc = "os_rename" /\ rn_fs' # rn_fs =>
            /\ rn_cur.dest \notin rn_fs
            /\ rn_fs' = (rn_fs \ {rn_cur.src}) \cup {rn_cur.dest}
            /\ Cardinality(rn_fs') = Cardinality(rn_fs)]_vars

\* The proposed name and its first suffix both existed: the file was moved to
\* suffix 2, and the file at suffix 1 is still there.
C12_Witness ==
    /\ InDrive
    /\ rn_pc = "upload"
    /\ rn_cur.proposed = NameTA
    /\ rn_cur.dest = suffixed(NameTA, 2)
    /\ {NameTA1, rn_cur.dest} \subseteq rn_fs

\* C16: in rename_files_in_directory processed = renamed + skipped + failed
\* between two files and at return; a step in which the metadata read or the
\* rename of a file fails adds exactly 1 to failed, leaves the directory as it
\* was with the file under its original name, and goes on to the next file; the
\* function returns only after the last listed file.
C16_ScanCounts ==
    /\ [](InScan /\ rn_pc \in {"file", "done"} =>
            rn_summary.processed
               = rn_summary.renamed + rn_summary.skipped + rn_summary.failed)
    /\ [](InScan /\ rn_pc = "done" =>
            /\ rn_result = rn_summary
            /\ rn_idx = Len(rn_files) + 1)
    /\ [][InScan /\ FileFails =>
            /\ rn_summary'.failed = rn_summary.failed + 1
            /\ rn_fs' = rn_fs
            /\ rn_files[rn_idx] \in rn_fs'
            /\ rn_idx' = rn_idx + 1
            /\ rn_pc' = "file"]_vars

\* A first file failed, a later one was renamed, and the scan returned.
C16_Witness ==
    /\ InScan
    /\ rn_pc = "done"
    /\ Len(rn_files) = 2
    /\ rn_outcome[1] = "failed"
    /\ rn_outcome[2] = "renamed"
    /\ rn_files[1] \in rn_fs
    /\ rn_result.processed = 2

\* ================================================================== claims: iterations
OutcomeCount(o) == Cardinality({i \in DOMAIN outcome : outcome[i] = o})

\* The iteration of the file at idx has begun and has not yet reached its outcome.
Undecided == pc \notin {"loop_head", "done"} /\ outcome[idx] = "pending"

\* C21: every scanned file gets exactly one outcome: skipped for a missing id,
\* failed, or deleted after its upload. Between two iterations and at return
\* scanned = (files skipped for a missing id) + failed + deleted; inside an
\* iteration the sum is one short until the outcome is reached, so no file adds
\* to both 'failed' and 'deleted'; a deleted file was uploaded before.
C21_OneOutcomePerFile ==
    /\ [](summary.scanned
            = OutcomeCount("skipped") + summary.failed + summary.deleted
              + (IF Undecided THEN 1 ELSE 0))
    /\ [](pc \in {"loop_head", "done"} =>
            summary.scanned = OutcomeCount("skipped") + summary.failed + summary.deleted)
    /\ [](deleted \subseteq {u.file : u \in uploads})
    /\ [][/\ summary'.failed + summary'.deleted - summary.failed - summary.deleted
               \in {0, 1}
          /\ summary'.failed >= summary.failed
          /\ summary'.deleted >= summary.deleted]_vars

\* C21 witness: a run returned after one file was skipped for its missing id and
\* another was uploaded and deleted.
C21_Witness ==
    /\ pc = "done"
    /\ OutcomeCount("skipped") = 1
    /\ result.failed = 0
    /\ result.deleted = 1
    /\ result.scanned = 2

\* C22: with a positive max_uploads_per_run never more than that many files are
\* uploaded, and once 'uploaded' has reached the limit no further file is scanned;
\* with max_uploads_per_run zero or negative the run returns only after every
\* listed file was scanned.
C22_UploadLimit ==
    /\ [](max_uploads_per_run > 0 => summary.uploaded <= max_uploads_per_run)
    /\ [](pc = "done" /\ max_uploads_per_run > 0 =>
             result.uploaded <= max_uploads_per_run)
    /\ [](pc = "done" /\ max_uploads_per_run <= 0 =>
             result.scanned = Len(music_files))
    /\ [][max_uploads_per_run > 0 /\ summary.uploaded >= max_uploads_per_run =>
             /\ summary'.scanned = summary.scanned
             /\ pc = "loop_head" => pc' = "done" /\ idx' = idx]_vars

\* C22 witness: the run stopped at the limit with a listed file left unscanned.
C22_Witness ==
    /\ pc = "done"
    /\ max_uploads_per_run > 0
    /\ result.uploaded = max_uploads_per_run
    /\ result.scanned < Len(music_files)
    /\ outcome[Len(music_files)] = "pending"

\* C23: when the iteration of a file with an id ends, no local temporary copy of
\* that file is left, under its first name or under the name it was renamed to,
\* unless the os.remove of the finally clause failed (the file it was asked to
\* remove is still there).
C23_TempFileRemoved ==
    [][pc = "finally" /\ pc' = "loop_head" =>
          \/ temp_path \in tmpfs /\ temp_path \in tmpfs'
          \/ \A p \in tmpfs' : p[1] # CurFile.id]_vars

\* C23 witness: a file was renamed locally, uploaded from the new path, and after
\* its iteration nothing is left in the temp directory.
C23_Witness ==
    /\ pc = "loop_head"
    /\ tmpfs = {}
    /\ \E u \in uploads : u.from[2] # music_files[u.file].name

\* Title and artist of the updates both give a non-empty filename component.
BothParts ==
    /\ updates.title # None
    /\ updates.artist # None
    /\ safe_filename_component(updates.title) # <<>>
    /\ safe_filename_component(updates.artist) # <<>>

\* C28: on the identified path the file is uploaded to the destination folder
\* under '<title>_<artist><ext>', <ext> being the extension of the original name,
\* when title and artist of the updates both give a non-empty filename component,
\* and under its original name otherwise, in particular when the title or the
\* artist update is None.
C28_DestinationName ==
    [][pc = "upload" /\ uploads' # uploads =>
          /\ NewUpload.parent = "dest"
          /\ NewUpload.file = CurFile.id
          /\ NewUpload.dest_name.ext = CurFile.name.ext
          /\ BothParts =>
                NewUpload.dest_name.base
                   = safe_filename_component(updates.title) \o <<"_">>
                     \o safe_filename_component(updates.artist)
          /\ ~BothParts => NewUpload.dest_name = CurFile.name]_vars

\* C28 witness: one file went to the destination under its original name because
\* its title update was None, another under a new name.
C28_Witness ==
    /\ pc = "delete"
    /\ updates.title = None
    /\ updates.artist # None
    /\ \E u \in uploads :
          u.file = CurFile.id /\ u.parent = "dest" /\ u.dest_name = CurFile.name
    /\ \E u \in uploads :
          u.file # CurFile.id /\ u.parent = "dest"
          /\ u.dest_name # music_files[u.file].name

\* C24: the run iterates once over the listing taken at its start: the listing
\* never changes (not even when the run uploads a file to the source folder), the
\* loop position only moves forward one file at a time, every position is scanned
\* at most once, and the run returns after at most len(listing) iterations.
C24_OnePassTerminates ==
    /\ [][/\ music_files' = music_files
          /\ idx' \in {idx, idx + 1}
          /\ summary'.scanned \in {summary.scanned, summary.scanned + 1}
          /\ summary'.scanned # summary.scanned => pc = "loop_head"]_vars
    /\ [](summary.scanned = (IF pc \in {"loop_head", "done"} THEN idx - 1 ELSE idx))
    /\ [](summary.scanned <= Len(music_files))
    /\ <>(pc = "done")

\* C24 witness: the run returned after a file was uploaded back to the source
\* folder, having scanned each listed file once.
C24_Witness ==
    /\ pc = "done"
    /\ result.scanned = Len(music_files)
    /\ Len(music_files) >= 2
    /\ \E u \in uploads : u.parent = "source" /\ u.file = 1

\* ================================================================== claims: year
\* The normalized year of a tag value: its four leading digits, "" without them.
YearOf(v) ==
    IF v # None /\ Len(strip(v)) >= 4 /\ \A i \in 1..4 : IsDigit(strip(v)[i])
    THEN SubSeq(strip(v), 1, 4)
    ELSE <<>>

OnlyYearFetched == \A f \in MetaFields \ {"year"} : new_meta[f] = None

\* C25: in _build_updates_with_conflict_logging the existing year is the 'year'
\* tag, or the 'date' tag when 'year' is empty, and the existing and the new year
\* are compared on their normalized years: without a new normalized year nothing
\* is written; with one, it is written (as the normalized year, never the raw
\* value) when the existing normalized year is empty or the same, without a
\* conflict being raised; when the two normalized years differ nothing is written
\* and a conflict is raised.
C25_YearComparedNormalized ==
    Merged =>
        LET old == YearOf(YearSource)
            new == YearOf(new_meta.year)
            y == built.updates.year
        IN /\ new = <<>> => y = None
           /\ new # <<>> /\ (old = <<>> \/ old = new) =>
                 /\ y = new
                 /\ OnlyYearFetched => ~built.had_conflict
           /\ new # <<>> /\ old # <<>> /\ old # new =>
                 /\ y = None
                 /\ built.had_conflict

\* C25 witness: an existing year with a month and a new plain year of the same
\* year: no conflict, and the plain year is written.
C25_Witness ==
    /\ Merged
    /\ existing["year"] = Y2019 \o <<"-", "0", "3">>
    /\ new_meta.year = Y2019
    /\ built.updates.year = Y2019
    /\ ~built.had_conflict

\* ================================================================== claims: identify
Returned == id_pc = "returned"

FromApi == id_in.proc \in {"api_match", "api_lookup"}

\* C26: every candidate list that identify of retagger_api.py returns, from the
\* direct match and from the fallback lookup alike, holds only candidates with a
\* non-empty recording id and a confidence of at least min_confidence, is sorted
\* by non-increasing confidence, and has at most max_candidates entries.
C26_ApiCandidates ==
    (FromApi /\ Returned) =>
        /\ \A i \in DOMAIN id_out :
              /\ id_out[i].id # ""
              /\ id_out[i].confidence >= id_in.min_confidence
        /\ \A i, j \in DOMAIN id_out :
              i < j => id_out[i].confidence >= id_out[j].confidence
        /\ Len(id_out) <= id_in.max_candidates

\* C26 witness: the fallback lookup answered in rising order of score; the list
\* returned starts with the higher score.
C26_Witness ==
    /\ id_in.proc = "api_lookup"
    /\ Returned
    /\ Len(id_in.rows) = 2
    /\ lookup_score(id_in.rows[1].score) < lookup_score(id_in.rows[2].score)
    /\ Len(id_out) = 2
    /\ id_out[1].confidence > id_out[2].confidence

\* C27: every TrackId that identify of retagger.py returns has a confidence of at
\* least the min_confidence the identifier was built with, so TaggingDriver.run
\* writes tags only from a match with such a confidence.
C27_RetaggerThreshold ==
    id_in.proc = "retagger" =>
        /\ id_pc \in {"returned", "ran", "raised"} =>
              \A i \in DOMAIN id_out : id_out[i].confidence >= id_in.min_confidence
        /\ (id_pc = "ran" /\ id_run.wrote_tags) =>
              id_run.chosen[1].confidence >= id_in.min_confidence

====
